---- MODULE Spec2Model ----
(***************************************************************************)
(* Model of NailUsmanov/online_subscription: the storage layer             *)
(* (internal/storage/storage.go), the service layer                        *)
(* (internal/service/interface.go), the HTTP handlers                      *)
(* (internal/handlers/handler.go), the application's Run                   *)
(* (internal/app/app.go) and the logging middleware                        *)
(* (internal/middleware/logger.go).                                        *)
(*                                                                         *)
(* Conventions                                                             *)
(*   time.Time   a record [y, m, d] (UTC date; the code never sets a time  *)
(*               of day), ordered as an instant, i.e. lexicographically    *)
(*   *T          a sequence: <<>> is nil, <<v>> points to v                *)
(*   error       the chain of wrapped errors, outermost first; <<>> is nil *)
(*   string      a TLA+ string, read byte by byte with SubSeq              *)
(***************************************************************************)
EXTENDS Integers, Sequences, FiniteSets, TLC

VARIABLES
    rows,       \* the rows the cursor of Storage.Sum's query delivers
    fault,      \* the driver failure that query meets: [kind, at]
    filter,     \* the models.SumSubscription handed to Storage.Sum
    sumOut,     \* what Storage.Sum returned: [called, total, err, added]
    call,       \* the service call made: [op, id, data, out], out the repository's answer
    ret,        \* what the service call returned: [err, sub, subs, total]
    repo,       \* the calls the service made on its repository, in order
    req,        \* the HTTP request a handler was given
    resp,       \* the response the handler wrote: [status, body, svc, err]
    ctxDone,    \* the context handed to App.Run is cancelled
    srv,        \* the http.Server of App.Run: [inShutdown, listening, active, idle]
    run,        \* App.Run itself: [pc, lasErr, ret]
    shut,       \* the goroutine App.Run starts: its position
    table,      \* the rows of the subscriptions table concurrent calls read
    inv,        \* the concurrent invocations of Sum, each with its own locals
    turns,      \* the turns of Storage.Sum's loop: [from, to, months, at] per scanned row
    listOut,    \* what Storage.List returned: [subs, err]
    store,      \* the subscriptions table behind the Storage: [rows, nextID]
    mw          \* one request through LoggingMiddleware: [script, pc, called, under, respData, logged]

aggVars  == <<rows, fault, filter, sumOut, turns, listOut>>
svcVars  == <<call, ret, repo>>
httpVars == <<req, resp>>
appVars  == <<ctxDone, srv, run, shut>>
concVars == <<table, inv>>
dbVars   == <<store>>
logVars  == <<mw>>

vars == <<aggVars, svcVars, httpVars, appVars, concVars, dbVars, logVars>>

----------------------------------------------------------------------------
(* Bounds of the model *)

\* the longest list of rows a query delivers
MaxRows == 2
\* the largest id a service method is called with (the smallest is -1)
MaxID == 2

----------------------------------------------------------------------------
(* time.Time *)

Nil == <<>>
Ptr(v) == <<v>>
Deref(p) == p[1]

\* the parts of the state a specification leaves out stay as constructed
AggIdle ==
    /\ rows = <<>> /\ fault = [kind |-> "none", at |-> 0]
    /\ filter = [UserID |-> "", ServiceName |-> "",
                 From |-> [y |-> 1, m |-> 1, d |-> 1], To |-> [y |-> 1, m |-> 1, d |-> 1]]
    /\ sumOut = [called |-> FALSE, total |-> 0, err |-> Nil, added |-> <<>>]
    /\ turns = <<>> /\ listOut = Nil
SvcIdle  == call = Nil /\ ret = Nil /\ repo = <<>>
HttpIdle == req = Nil /\ resp = Nil
AppIdle  == ctxDone = FALSE /\ srv = Nil /\ run = Nil /\ shut = Nil
ConcIdle == table = <<>> /\ inv = <<>>
DbIdle   == store = [rows |-> <<>>, nextID |-> 1]
LogIdle  == mw = Nil

\* time.Date(y, m, d, 0, 0, 0, 0, time.UTC)
Date(y, m, d) == [y |-> y, m |-> m, d |-> d]

\* t.After(u): t is a later instant than u
After(t, u) ==
    \/ t.y > u.y
    \/ t.y = u.y /\ t.m > u.m
    \/ t.y = u.y /\ t.m = u.m /\ t.d > u.d

\* t.Before(u): t is an earlier instant than u
Before(t, u) ==
    \/ t.y < u.y
    \/ t.y = u.y /\ t.m < u.m
    \/ t.y = u.y /\ t.m = u.m /\ t.d < u.d

----------------------------------------------------------------------------
(* Storage.Sum *)

DriverErr == <<"driver: bad connection">>
\* fmt.Errorf(msg + ": %w", err)
Wrap(msg, err) == <<msg>> \o err

\* What the driver does to one query: nothing, QueryContext fails, the Scan of
\* row number `at` fails, or rows.Err() reports a failed iteration at the end.
NoFault == [kind |-> "none", at |-> 0]
Faults(n) ==
    {NoFault, [kind |-> "query", at |-> 0], [kind |-> "iter", at |-> 0]}
        \cup {[kind |-> "scan", at |-> k] : k \in 1..n}

\* the rows scanned before the loop ends: all of them, or those before the
\* row whose Scan fails or before which rows.Next() gives up
Scanned(rs, flt) ==
    IF flt.kind = "scan" \/ (flt.kind = "iter" /\ flt.at > 0) THEN flt.at - 1 ELSE Len(rs)

C1MutSumAdded(row, f) ==
    LET from == IF After(row.start_date, f.From) THEN row.start_date ELSE f.From
        to   == IF row.end_date # Nil /\ Before(Deref(row.end_date), f.To)
                THEN Deref(row.end_date) ELSE f.To
        months == (to.m - from.m) + 1
    IN  IF After(from, to) THEN 0
        ELSE IF months < 0 THEN 0
        ELSE row.price * months

C3MutSumAdded(row, f) ==
    LET from == IF After(row.start_date, f.From) THEN row.start_date ELSE f.From
        to   == f.To
        months == (to.y - from.y) * 12 + (to.m - from.m) + 1
    IN  IF After(from, to) THEN 0
        ELSE IF months < 0 THEN 0
        ELSE row.price * months

C4MutSumAdded(row, f) ==
    LET from == f.From
        to   == IF row.end_date # Nil /\ Before(Deref(row.end_date), f.To)
                THEN Deref(row.end_date) ELSE f.To
        months == (to.y - from.y) * 12 + (to.m - from.m) + 1
    IN  IF After(from, to) THEN 0
        ELSE IF months < 0 THEN 0
        ELSE row.price * months

C5MutSumAdded(row, f) ==
    LET from == IF After(row.start_date, f.From) THEN row.start_date ELSE f.From
        to   == IF row.end_date # Nil /\ Before(Deref(row.end_date), f.To)
                THEN Deref(row.end_date) ELSE f.To
        months == (to.y - from.y) * 12 + (to.m - from.m)
    IN  IF After(from, to) THEN 0
        ELSE IF months < 0 THEN 0
        ELSE row.price * months

\* the span counted from the row's start date, not from the clamped from
C27MutSumAdded(row, f) ==
    LET from == IF After(row.start_date, f.From) THEN row.start_date ELSE f.From
        to   == IF row.end_date # Nil /\ Before(Deref(row.end_date), f.To)
                THEN Deref(row.end_date) ELSE f.To
        months == (to.y - row.start_date.y) * 12 + (to.m - row.start_date.m) + 1
    IN  IF After(from, to) THEN 0
        ELSE IF months < 0 THEN 0
        ELSE row.price * months

\* The body of the loop for one scanned row: the amount added to total.
\* from/to start as the filter's bounds and are clamped to the row's dates.
SumAdded(row, f) ==
    LET from == IF After(row.start_date, f.From) THEN row.start_date ELSE f.From
        to   == IF row.end_date # Nil /\ Before(Deref(row.end_date), f.To)
                THEN Deref(row.end_date) ELSE f.To
        months == (to.y - from.y) * 12 + (to.m - from.m) + 1
    IN  IF After(from, to) THEN 0
        ELSE IF months < 0 THEN 0
        ELSE row.price * months

\* the no-overlap guard left out
C21MutSumTurn(row, f) ==
    LET from == IF After(row.start_date, f.From) THEN row.start_date ELSE f.From
        to   == IF row.end_date # Nil /\ Before(Deref(row.end_date), f.To)
                THEN Deref(row.end_date) ELSE f.To
        months == (to.y - from.y) * 12 + (to.m - from.m) + 1
    IN  IF months < 0
        THEN [from |-> from, to |-> to, months |-> Ptr(months), at |-> "negative"]
        ELSE [from |-> from, to |-> to, months |-> Ptr(months), at |-> "add"]

\* One turn of the loop as it runs: the clamped from and to, the span once
\* it is computed (nil when the turn ends at the guard before it), and where
\* the turn ends: at the continue of the no-overlap guard, at the continue
\* of months < 0, or at total += price * months.
SumTurn(row, f) ==
    LET from == IF After(row.start_date, f.From) THEN row.start_date ELSE f.From
        to   == IF row.end_date # Nil /\ Before(Deref(row.end_date), f.To)
                THEN Deref(row.end_date) ELSE f.To
        months == (to.y - from.y) * 12 + (to.m - from.m) + 1
    IN  IF After(from, to)
        THEN [from |-> from, to |-> to, months |-> Nil, at |-> "no-overlap"]
        ELSE IF months < 0
        THEN [from |-> from, to |-> to, months |-> Ptr(months), at |-> "negative"]
        ELSE [from |-> from, to |-> to, months |-> Ptr(months), at |-> "add"]

\* the turns Storage.Sum takes before it returns
SumTurns(rs, f, flt) ==
    LET n == Scanned(rs, flt)
    IN  IF flt.kind = "query" THEN <<>> ELSE [i \in 1..n |-> SumTurn(rs[i], f)]

RECURSIVE SumLoop(_, _, _)

\* total = price * months in place of total += price * months
C2MutSumLoop(rs, f, n) ==
    IF n = 0 THEN 0
    ELSE IF SumAdded(rs[n], f) = 0 THEN SumLoop(rs, f, n - 1)
    ELSE SumAdded(rs[n], f)

\* The loop over the scanned rows: total after the first n rows.
SumLoop(rs, f, n) ==
    IF n = 0 THEN 0 ELSE SumLoop(rs, f, n - 1) + SumAdded(rs[n], f)

\* an empty result reported as sql.ErrNoRows
C6MutStorageSum(rs, f, flt) ==
    LET n == Scanned(rs, flt)
        added == [i \in 1..n |-> SumAdded(rs[i], f)]
    IN  IF flt.kind = "query"
        THEN [called |-> TRUE, total |-> 0, err |-> Wrap("query failed", DriverErr),
              added |-> <<>>]
        ELSE IF flt.kind = "scan"
        THEN [called |-> TRUE, total |-> 0, err |-> Wrap("scan rows", DriverErr),
              added |-> added]
        ELSE IF flt.kind = "iter"
        THEN [called |-> TRUE, total |-> 0,
              err |-> Wrap("rows iteration error", DriverErr), added |-> added]
        ELSE IF n = 0
        THEN [called |-> TRUE, total |-> 0, err |-> <<"sql: no rows in result set">>,
              added |-> added]
        ELSE [called |-> TRUE, total |-> SumLoop(rs, f, n), err |-> Nil, added |-> added]

\* Storage.Sum(ctx, filter) when the query delivers the rows rs under the
\* driver failure flt.  added is the amount each scanned row added to total
\* before the function returned (a history of the loop, not a return value).
StorageSum(rs, f, flt) ==
    LET n == Scanned(rs, flt)
        added == [i \in 1..n |-> SumAdded(rs[i], f)]
    IN  IF flt.kind = "query"
        THEN [called |-> TRUE, total |-> 0, err |-> Wrap("query failed", DriverErr),
              added |-> <<>>]
        ELSE IF flt.kind = "scan"
        THEN [called |-> TRUE, total |-> 0, err |-> Wrap("scan rows", DriverErr),
              added |-> added]
        ELSE IF flt.kind = "iter"
        THEN [called |-> TRUE, total |-> 0,
              err |-> Wrap("rows iteration error", DriverErr), added |-> added]
        ELSE [called |-> TRUE, total |-> SumLoop(rs, f, n), err |-> Nil, added |-> added]

----------------------------------------------------------------------------
(* The inputs of the aggregation *)

BaseMonth == [y |-> 2023, m |-> 12]

\* the i-th month from BaseMonth on (i = 0 is BaseMonth), as the time.Time
\* that time.Parse("01-2006", ...) gives for it: the first day of the month
MonthAt(i) ==
    LET k == BaseMonth.y * 12 + (BaseMonth.m - 1) + i
    IN  Date(k \div 12, (k % 12) + 1, 1)

\* 12-2023, 01-2024, 02-2024, 03-2024
Months == {MonthAt(i) : i \in 0..3}
Prices == {50, 100}

\* the rows the service can have stored: price > 0, end_date NULL or not
\* before start_date
Rows ==
    {r \in [price : Prices, start_date : Months,
            end_date : {Nil} \cup {Ptr(t) : t \in Months}] :
        r.end_date = Nil \/ ~Before(Deref(r.end_date), r.start_date)}

RECURSIVE SeqsUpTo(_, _)
SeqsUpTo(S, n) ==
    IF n = 0 THEN {<<>>}
    ELSE LET shorter == SeqsUpTo(S, n - 1)
         IN  shorter \cup {Append(s, x) : s \in {t \in shorter : Len(t) = n - 1}, x \in S}

\* the filters Service.Sum hands down: To is not before From
Filters ==
    {f \in [UserID : {"u"}, ServiceName : {"Netflix"}, From : Months, To : Months] :
        ~Before(f.To, f.From)}

NotCalled == [called |-> FALSE, total |-> 0, err |-> Nil, added |-> <<>>]

InitAgg ==
    /\ rows \in SeqsUpTo(Rows, MaxRows)
    /\ filter \in Filters
    /\ fault \in Faults(Len(rows))
    /\ sumOut = NotCalled
    /\ turns = <<>> /\ listOut = Nil
    /\ call = Nil /\ ret = Nil /\ repo = <<>>
    /\ HttpIdle /\ AppIdle /\ ConcIdle /\ DbIdle /\ LogIdle

\* st.Sum(ctx, filter) on a storage whose driver delivers rows under fault
SumCall ==
    /\ ~sumOut.called
    /\ sumOut' = StorageSum(rows, filter, fault)
    /\ turns' = SumTurns(rows, filter, fault)
    /\ UNCHANGED <<rows, fault, filter, listOut, svcVars, httpVars, appVars, concVars, dbVars, logVars>>

NextAgg == SumCall

SpecAgg == InitAgg /\ [][NextAgg]_vars

----------------------------------------------------------------------------
(* Storage.List *)

\* a failed read hands back the rows scanned so far
C23MutStorageList(rs, flt) ==
    LET n == Scanned(rs, flt)
        result == [i \in 1..n |->
                      [ID |-> rs[i].id, ServiceName |-> rs[i].service_name,
                       Price |-> rs[i].price, UserID |-> rs[i].user_id,
                       StartDate |-> rs[i].start_date, EndDate |-> rs[i].end_date]]
    IN  IF flt.kind = "query"
        THEN [called |-> TRUE, subs |-> Nil,
              err |-> Wrap("failed to get query from db", DriverErr), scanned |-> <<>>]
        ELSE IF flt.kind = "scan"
        THEN [called |-> TRUE, subs |-> Ptr(result), err |-> Wrap("scan rows", DriverErr),
              scanned |-> result]
        ELSE IF flt.kind = "iter"
        THEN [called |-> TRUE, subs |-> Ptr(result),
              err |-> Wrap("rows iteration error", DriverErr), scanned |-> result]
        ELSE [called |-> TRUE, subs |-> Ptr(result), err |-> Nil, scanned |-> result]

\* Storage.List(ctx, userID) when the query delivers the rows rs under the
\* driver failure flt.  A slice is nil (<<>>) or points to its elements;
\* result starts as make([]models.Subscription, 0).  scanned is result as it
\* stood when the function returned (a history, not a return value).
StorageList(rs, flt) ==
    LET n == Scanned(rs, flt)
        result == [i \in 1..n |->
                      [ID |-> rs[i].id, ServiceName |-> rs[i].service_name,
                       Price |-> rs[i].price, UserID |-> rs[i].user_id,
                       StartDate |-> rs[i].start_date, EndDate |-> rs[i].end_date]]
    IN  IF flt.kind = "query"
        THEN [called |-> TRUE, subs |-> Nil,
              err |-> Wrap("failed to get query from db", DriverErr), scanned |-> <<>>]
        ELSE IF flt.kind = "scan"
        THEN [called |-> TRUE, subs |-> Nil, err |-> Wrap("scan rows", DriverErr),
              scanned |-> result]
        ELSE IF flt.kind = "iter"
        THEN [called |-> TRUE, subs |-> Nil,
              err |-> Wrap("rows iteration error", DriverErr), scanned |-> result]
        ELSE [called |-> TRUE, subs |-> Ptr(result), err |-> Nil, scanned |-> result]

\* the rows of one user as both queries read them (ListQuery selects all six
\* columns, SumQuery price, start_date and end_date)
UserRows ==
    [id : 1..2, service_name : {"Netflix"}, price : {100, 200}, user_id : {"user-1"},
     start_date : {MonthAt(1)}, end_date : {Nil, Ptr(MonthAt(2))}]

\* the failures of Faults, and rows.Next() giving up before row k (sqlmock's
\* RowError(k - 1, err))
ReadFaults(n) == Faults(n) \cup {[kind |-> "iter", at |-> k] : k \in 1..n}

InitRead ==
    /\ rows \in SeqsUpTo(UserRows, MaxRows)
    /\ fault \in ReadFaults(Len(rows))
    /\ filter = [UserID |-> "user-1", ServiceName |-> "Netflix",
                 From |-> MonthAt(1), To |-> MonthAt(2)]
    /\ sumOut = NotCalled
    /\ turns = <<>> /\ listOut = Nil
    /\ SvcIdle /\ HttpIdle /\ AppIdle /\ ConcIdle /\ DbIdle /\ LogIdle

\* st.List(ctx, userID) on a storage whose driver delivers rows under fault
ListCall ==
    /\ listOut = Nil
    /\ listOut' = StorageList(rows, fault)
    /\ UNCHANGED <<rows, fault, filter, sumOut, turns, svcVars, httpVars, appVars,
                   concVars, dbVars, logVars>>

NextRead == SumCall \/ ListCall

SpecRead == InitRead /\ [][NextRead]_vars

----------------------------------------------------------------------------
\* Rows as a table filled by other hands can hold them: dates with a day of
\* the month, and end dates before start dates.
MidMonth(t) == Date(t.y, t.m, 15)
AnyDates == {MonthAt(1), MidMonth(MonthAt(1)), MonthAt(2), MidMonth(MonthAt(2))}
AnyRows ==
    [price : {100}, start_date : AnyDates, end_date : {Nil} \cup {Ptr(t) : t \in AnyDates}]

\* any pair of months as a filter, To before From included
AnyFilters == [UserID : {"u"}, ServiceName : {"Netflix"}, From : Months, To : Months]

InitAny ==
    /\ rows \in SeqsUpTo(AnyRows, MaxRows)
    /\ filter \in AnyFilters
    /\ fault = NoFault
    /\ sumOut = NotCalled
    /\ turns = <<>> /\ listOut = Nil
    /\ SvcIdle /\ HttpIdle /\ AppIdle /\ ConcIdle /\ DbIdle /\ LogIdle

SpecAny == InitAny /\ [][NextAgg]_vars

----------------------------------------------------------------------------
(* Strings: strings.TrimSpace, time.Parse("01-2006", s), uuid.Parse *)

Char(s, i) == SubSeq(s, i, i)

WhiteSpace == {" ", "\t", "\n", "\r", "\f"}

RECURSIVE TrimLeft(_)
TrimLeft(s) ==
    IF Len(s) > 0 /\ Char(s, 1) \in WhiteSpace
    THEN TrimLeft(SubSeq(s, 2, Len(s))) ELSE s

RECURSIVE TrimRight(_)
TrimRight(s) ==
    IF Len(s) > 0 /\ Char(s, Len(s)) \in WhiteSpace
    THEN TrimRight(SubSeq(s, 1, Len(s) - 1)) ELSE s

\* strings.TrimSpace(s)
TrimSpace(s) == TrimRight(TrimLeft(s))

DecDigits == "0123456789"
IsDigit(c) == \E k \in 1..10 : Char(DecDigits, k) = c
DigitValue(c) == (CHOOSE k \in 1..10 : Char(DecDigits, k) = c) - 1

RECURSIVE Atoi(_)
Atoi(s) ==
    IF Len(s) = 0 THEN 0
    ELSE Atoi(SubSeq(s, 1, Len(s) - 1)) * 10 + DigitValue(Char(s, Len(s)))

AllDigits(s) == \A k \in 1..Len(s) : IsDigit(Char(s, k))

\* the layout "1-2006": a month of one digit accepted as well
C12MutTimeParse(s) ==
    LET short == Len(s) = 6 /\ Char(s, 2) = "-"
        t == IF short THEN "0" \o s ELSE s
        wellFormed ==
            /\ Len(t) = 7
            /\ AllDigits(SubSeq(t, 1, 2))
            /\ Char(t, 3) = "-"
            /\ AllDigits(SubSeq(t, 4, 7))
        month == Atoi(SubSeq(t, 1, 2))
        year  == Atoi(SubSeq(t, 4, 7))
    IN  IF wellFormed /\ month >= 1 /\ month <= 12
        THEN [ok |-> TRUE, t |-> Date(year, month, 1)]
        ELSE [ok |-> FALSE, t |-> Date(1, 1, 1)]

\* time.Parse("01-2006", s): a two-digit month 01..12, "-", a four-digit year
\* and nothing else; the result is the first day of that month, 00:00 UTC.
\* [ok, t]: ok is err == nil.
TimeParse(s) ==
    LET wellFormed ==
            /\ Len(s) = 7
            /\ AllDigits(SubSeq(s, 1, 2))
            /\ Char(s, 3) = "-"
            /\ AllDigits(SubSeq(s, 4, 7))
        month == Atoi(SubSeq(s, 1, 2))
        year  == Atoi(SubSeq(s, 4, 7))
    IN  IF wellFormed /\ month >= 1 /\ month <= 12
        THEN [ok |-> TRUE, t |-> Date(year, month, 1)]
        ELSE [ok |-> FALSE, t |-> Date(1, 1, 1)]

HexDigits == "0123456789abcdefABCDEF"
IsHex(c) == \E k \in 1..22 : Char(HexDigits, k) = c

\* the 36-byte form xxxxxxxx-xxxx-xxxx-xxxx-xxxxxxxxxxxx at the start of s
UUIDBody(s) ==
    /\ Len(s) >= 36
    /\ \A k \in 1..36 :
           IF k \in {9, 14, 19, 24} THEN Char(s, k) = "-" ELSE IsHex(Char(s, k))

\* strings.EqualFold(s[:9], "urn:uuid:")
UrnPrefix(s) ==
    /\ Char(s, 1) \in {"u", "U"} /\ Char(s, 2) \in {"r", "R"}
    /\ Char(s, 3) \in {"n", "N"} /\ Char(s, 4) = ":"
    /\ Char(s, 5) \in {"u", "U"} /\ Char(s, 6) \in {"u", "U"}
    /\ Char(s, 7) \in {"i", "I"} /\ Char(s, 8) \in {"d", "D"}
    /\ Char(s, 9) = ":"

\* uuid.Parse(s) returns no error
UUIDParse(s) ==
    CASE Len(s) = 36 -> UUIDBody(s)
      [] Len(s) = 45 -> UrnPrefix(s) /\ UUIDBody(SubSeq(s, 10, 45))
      [] Len(s) = 38 -> UUIDBody(SubSeq(s, 2, 38))
      [] Len(s) = 32 -> \A k \in 1..32 : IsHex(Char(s, k))
      [] OTHER -> FALSE

----------------------------------------------------------------------------
(* Errors *)

ErrInvalidID            == <<"invalid id">>
ErrInvalidServiceName   == <<"invalid service_name">>
ErrInvalidPrice         == <<"invalid price">>
ErrInvalidUserID        == <<"invalid user_id">>
ErrInvalidStartDate     == <<"invalid start_date">>
ErrInvalidEndDate       == <<"invalid end_date">>
ErrSubscriptionNotFound == <<"subscription not found">>
SqlErrNoRows            == <<"sql: no rows in result set">>

\* errors.Is(err, target): target is err or an error err wraps
ErrorsIs(err, target) ==
    \E k \in 1..Len(err) : SubSeq(err, k, Len(err)) = target

----------------------------------------------------------------------------
(* Service: each method as the result it returns and the calls it makes on   *)
(* the repository.  out is what the repository returns to the call, if made: *)
(* [err, id, sub, subs, total].                                              *)

NoSub == Nil
Result(err, sub, subs, total, calls) ==
    [err |-> err, sub |-> sub, subs |-> subs, total |-> total, repo |-> calls]
Fail(err) == Result(err, NoSub, <<>>, 0, <<>>)

RepoCall(method, arg) == [method |-> method, arg |-> arg]

\* an end month equal to the start month rejected too
C9MutEndDateStep(endDate, start) ==
    IF endDate # Nil /\ Deref(endDate) # ""
    THEN LET endParse == TimeParse(Deref(endDate))
         IN  IF ~endParse.ok THEN [ok |-> FALSE, end |-> Nil]
             ELSE IF ~After(endParse.t, start) THEN [ok |-> FALSE, end |-> Nil]
             ELSE [ok |-> TRUE, end |-> Ptr(endParse.t)]
    ELSE [ok |-> TRUE, end |-> Nil]

\* the empty string not told from a month: only nil is open-ended
C10MutEndDateStep(endDate, start) ==
    IF endDate # Nil
    THEN LET endParse == TimeParse(Deref(endDate))
         IN  IF ~endParse.ok THEN [ok |-> FALSE, end |-> Nil]
             ELSE IF Before(endParse.t, start) THEN [ok |-> FALSE, end |-> Nil]
             ELSE [ok |-> TRUE, end |-> Ptr(endParse.t)]
    ELSE [ok |-> TRUE, end |-> Nil]

\* The end-date step of Create and Update: [ok, end].  ok is FALSE where the
\* method returns ErrInvalidEndDate; end is the *time.Time built otherwise.
EndDateStep(endDate, start) ==
    IF endDate # Nil /\ Deref(endDate) # ""
    THEN LET endParse == TimeParse(Deref(endDate))
         IN  IF ~endParse.ok THEN [ok |-> FALSE, end |-> Nil]
             ELSE IF Before(endParse.t, start) THEN [ok |-> FALSE, end |-> Nil]
             ELSE [ok |-> TRUE, end |-> Ptr(endParse.t)]
    ELSE [ok |-> TRUE, end |-> Nil]

\* the price checked before the service name
C7MutServiceCreate(data, out) ==
    LET name  == TrimSpace(data.ServiceName)
        start == TimeParse(data.StartDate)
        end   == EndDateStep(data.EndDate, start.t)
        sub   == [ID |-> 0, ServiceName |-> name, Price |-> data.Price,
                  UserID |-> data.UserID, StartDate |-> start.t, EndDate |-> end.end]
    IN  IF data.Price <= 0 THEN Fail(ErrInvalidPrice)
        ELSE IF name = "" THEN Fail(ErrInvalidServiceName)
        ELSE IF ~UUIDParse(data.UserID) THEN Fail(ErrInvalidUserID)
        ELSE IF ~start.ok THEN Fail(ErrInvalidStartDate)
        ELSE IF ~end.ok THEN Fail(ErrInvalidEndDate)
        ELSE IF out.err # Nil
             THEN Result(out.err, NoSub, <<>>, 0, <<RepoCall("Create", sub)>>)
             ELSE Result(Nil, Ptr([sub EXCEPT !.ID = out.id]), <<>>, 0,
                         <<RepoCall("Create", sub)>>)

\* the service name checked trimmed but stored as given
C28MutServiceCreate(data, out) ==
    LET name  == TrimSpace(data.ServiceName)
        start == TimeParse(data.StartDate)
        end   == EndDateStep(data.EndDate, start.t)
        sub   == [ID |-> 0, ServiceName |-> data.ServiceName, Price |-> data.Price,
                  UserID |-> data.UserID, StartDate |-> start.t, EndDate |-> end.end]
    IN  IF name = "" THEN Fail(ErrInvalidServiceName)
        ELSE IF data.Price <= 0 THEN Fail(ErrInvalidPrice)
        ELSE IF ~UUIDParse(data.UserID) THEN Fail(ErrInvalidUserID)
        ELSE IF ~start.ok THEN Fail(ErrInvalidStartDate)
        ELSE IF ~end.ok THEN Fail(ErrInvalidEndDate)
        ELSE IF out.err # Nil
             THEN Result(out.err, NoSub, <<>>, 0, <<RepoCall("Create", sub)>>)
             ELSE Result(Nil, Ptr([sub EXCEPT !.ID = out.id]), <<>>, 0,
                         <<RepoCall("Create", sub)>>)

\* Service.Create(ctx, data)
ServiceCreate(data, out) ==
    LET name  == TrimSpace(data.ServiceName)
        start == TimeParse(data.StartDate)
        end   == EndDateStep(data.EndDate, start.t)
        sub   == [ID |-> 0, ServiceName |-> name, Price |-> data.Price,
                  UserID |-> data.UserID, StartDate |-> start.t, EndDate |-> end.end]
    IN  IF name = "" THEN Fail(ErrInvalidServiceName)
        ELSE IF data.Price <= 0 THEN Fail(ErrInvalidPrice)
        ELSE IF ~UUIDParse(data.UserID) THEN Fail(ErrInvalidUserID)
        ELSE IF ~start.ok THEN Fail(ErrInvalidStartDate)
        ELSE IF ~end.ok THEN Fail(ErrInvalidEndDate)
        ELSE IF out.err # Nil
             THEN Result(out.err, NoSub, <<>>, 0, <<RepoCall("Create", sub)>>)
             ELSE Result(Nil, Ptr([sub EXCEPT !.ID = out.id]), <<>>, 0,
                         <<RepoCall("Create", sub)>>)

\* the repository's error compared with ==, so a wrapped sql.ErrNoRows is
\* not recognised
C16MutServiceGet(id, out) ==
    IF id <= 0 THEN Fail(ErrInvalidID)
    ELSE IF out.err # Nil
         THEN IF out.err = SqlErrNoRows
              THEN Result(ErrSubscriptionNotFound, NoSub, <<>>, 0, <<RepoCall("Get", id)>>)
              ELSE Result(out.err, NoSub, <<>>, 0, <<RepoCall("Get", id)>>)
         ELSE Result(Nil, out.sub, <<>>, 0, <<RepoCall("Get", id)>>)

\* Service.Get(ctx, id)
ServiceGet(id, out) ==
    IF id <= 0 THEN Fail(ErrInvalidID)
    ELSE IF out.err # Nil
         THEN IF ErrorsIs(out.err, SqlErrNoRows)
              THEN Result(ErrSubscriptionNotFound, NoSub, <<>>, 0, <<RepoCall("Get", id)>>)
              ELSE Result(out.err, NoSub, <<>>, 0, <<RepoCall("Get", id)>>)
         ELSE Result(Nil, out.sub, <<>>, 0, <<RepoCall("Get", id)>>)

\* a price of zero let through: the check is price < 0
C13MutServiceUpdate(id, data, out) ==
    LET name  == TrimSpace(data.ServiceName)
        start == TimeParse(data.StartDate)
        end   == EndDateStep(data.EndDate, start.t)
        subToRepo == [ID |-> id, ServiceName |-> name, Price |-> data.Price,
                      UserID |-> data.UserID, StartDate |-> start.t,
                      EndDate |-> end.end]
    IN  IF id <= 0 THEN Fail(ErrInvalidID)
        ELSE IF name = "" THEN Fail(ErrInvalidServiceName)
        ELSE IF data.Price < 0 THEN Fail(ErrInvalidPrice)
        ELSE IF ~UUIDParse(data.UserID) THEN Fail(ErrInvalidUserID)
        ELSE IF ~start.ok THEN Fail(ErrInvalidStartDate)
        ELSE IF ~end.ok THEN Fail(ErrInvalidEndDate)
        ELSE IF out.err # Nil
             THEN IF ErrorsIs(out.err, SqlErrNoRows)
                  THEN Result(ErrSubscriptionNotFound, NoSub, <<>>, 0,
                              <<RepoCall("Update", subToRepo)>>)
                  ELSE Result(out.err, NoSub, <<>>, 0, <<RepoCall("Update", subToRepo)>>)
             ELSE Result(Nil, NoSub, <<>>, 0, <<RepoCall("Update", subToRepo)>>)

\* the id checked after the service name
C15MutServiceUpdate(id, data, out) ==
    LET name  == TrimSpace(data.ServiceName)
        start == TimeParse(data.StartDate)
        end   == EndDateStep(data.EndDate, start.t)
        subToRepo == [ID |-> id, ServiceName |-> name, Price |-> data.Price,
                      UserID |-> data.UserID, StartDate |-> start.t,
                      EndDate |-> end.end]
    IN  IF name = "" THEN Fail(ErrInvalidServiceName)
        ELSE IF id <= 0 THEN Fail(ErrInvalidID)
        ELSE IF data.Price <= 0 THEN Fail(ErrInvalidPrice)
        ELSE IF ~UUIDParse(data.UserID) THEN Fail(ErrInvalidUserID)
        ELSE IF ~start.ok THEN Fail(ErrInvalidStartDate)
        ELSE IF ~end.ok THEN Fail(ErrInvalidEndDate)
        ELSE IF out.err # Nil
             THEN IF ErrorsIs(out.err, SqlErrNoRows)
                  THEN Result(ErrSubscriptionNotFound, NoSub, <<>>, 0,
                              <<RepoCall("Update", subToRepo)>>)
                  ELSE Result(out.err, NoSub, <<>>, 0, <<RepoCall("Update", subToRepo)>>)
             ELSE Result(Nil, NoSub, <<>>, 0, <<RepoCall("Update", subToRepo)>>)

\* the end date checked after the repository was called
C29MutServiceUpdate(id, data, out) ==
    LET name  == TrimSpace(data.ServiceName)
        start == TimeParse(data.StartDate)
        end   == EndDateStep(data.EndDate, start.t)
        subToRepo == [ID |-> id, ServiceName |-> name, Price |-> data.Price,
                      UserID |-> data.UserID, StartDate |-> start.t,
                      EndDate |-> end.end]
    IN  IF id <= 0 THEN Fail(ErrInvalidID)
        ELSE IF name = "" THEN Fail(ErrInvalidServiceName)
        ELSE IF data.Price <= 0 THEN Fail(ErrInvalidPrice)
        ELSE IF ~UUIDParse(data.UserID) THEN Fail(ErrInvalidUserID)
        ELSE IF ~start.ok THEN Fail(ErrInvalidStartDate)
        ELSE IF ~end.ok
             THEN Result(ErrInvalidEndDate, NoSub, <<>>, 0,
                         <<RepoCall("Update", subToRepo)>>)
        ELSE IF out.err # Nil
             THEN IF ErrorsIs(out.err, SqlErrNoRows)
                  THEN Result(ErrSubscriptionNotFound, NoSub, <<>>, 0,
                              <<RepoCall("Update", subToRepo)>>)
                  ELSE Result(out.err, NoSub, <<>>, 0, <<RepoCall("Update", subToRepo)>>)
             ELSE Result(Nil, NoSub, <<>>, 0, <<RepoCall("Update", subToRepo)>>)

\* Service.Update(ctx, id, sub)
ServiceUpdate(id, data, out) ==
    LET name  == TrimSpace(data.ServiceName)
        start == TimeParse(data.StartDate)
        end   == EndDateStep(data.EndDate, start.t)
        subToRepo == [ID |-> id, ServiceName |-> name, Price |-> data.Price,
                      UserID |-> data.UserID, StartDate |-> start.t,
                      EndDate |-> end.end]
    IN  IF id <= 0 THEN Fail(ErrInvalidID)
        ELSE IF name = "" THEN Fail(ErrInvalidServiceName)
        ELSE IF data.Price <= 0 THEN Fail(ErrInvalidPrice)
        ELSE IF ~UUIDParse(data.UserID) THEN Fail(ErrInvalidUserID)
        ELSE IF ~start.ok THEN Fail(ErrInvalidStartDate)
        ELSE IF ~end.ok THEN Fail(ErrInvalidEndDate)
        ELSE IF out.err # Nil
             THEN IF ErrorsIs(out.err, SqlErrNoRows)
                  THEN Result(ErrSubscriptionNotFound, NoSub, <<>>, 0,
                              <<RepoCall("Update", subToRepo)>>)
                  ELSE Result(out.err, NoSub, <<>>, 0, <<RepoCall("Update", subToRepo)>>)
             ELSE Result(Nil, NoSub, <<>>, 0, <<RepoCall("Update", subToRepo)>>)

\* Service.Delete(ctx, id)
ServiceDelete(id, out) ==
    IF id <= 0 THEN Fail(ErrInvalidID)
    ELSE IF out.err # Nil
         THEN IF ErrorsIs(out.err, SqlErrNoRows)
              THEN Result(ErrSubscriptionNotFound, NoSub, <<>>, 0,
                          <<RepoCall("Delete", id)>>)
              ELSE Result(out.err, NoSub, <<>>, 0, <<RepoCall("Delete", id)>>)
         ELSE Result(Nil, NoSub, <<>>, 0, <<RepoCall("Delete", id)>>)

\* Service.List(ctx, userID)
ServiceList(userID, out) ==
    IF ~UUIDParse(userID) THEN Fail(ErrInvalidUserID)
    ELSE IF out.err # Nil
         THEN Result(out.err, NoSub, <<>>, 0, <<RepoCall("List", userID)>>)
         ELSE Result(Nil, NoSub, out.subs, 0, <<RepoCall("List", userID)>>)

\* the from date parsed before the user id is checked
C8MutServiceSum(flt, out) ==
    LET name == TrimSpace(flt.ServiceName)
        from == TimeParse(flt.From)
        to   == TimeParse(flt.To)
        sumFilter == [UserID |-> flt.UserID, ServiceName |-> name,
                      From |-> from.t, To |-> to.t]
    IN  IF name = "" THEN Fail(ErrInvalidServiceName)
        ELSE IF ~from.ok THEN Fail(ErrInvalidStartDate)
        ELSE IF ~UUIDParse(flt.UserID) THEN Fail(ErrInvalidUserID)
        ELSE IF ~to.ok THEN Fail(ErrInvalidEndDate)
        ELSE IF Before(to.t, from.t) THEN Fail(ErrInvalidEndDate)
        ELSE IF out.err # Nil
             THEN Result(out.err, NoSub, <<>>, 0, <<RepoCall("Sum", sumFilter)>>)
             ELSE Result(Nil, NoSub, <<>>, out.total, <<RepoCall("Sum", sumFilter)>>)

\* a query of a single month (to equal to from) rejected too
C11MutServiceSum(flt, out) ==
    LET name == TrimSpace(flt.ServiceName)
        from == TimeParse(flt.From)
        to   == TimeParse(flt.To)
        sumFilter == [UserID |-> flt.UserID, ServiceName |-> name,
                      From |-> from.t, To |-> to.t]
    IN  IF name = "" THEN Fail(ErrInvalidServiceName)
        ELSE IF ~UUIDParse(flt.UserID) THEN Fail(ErrInvalidUserID)
        ELSE IF ~from.ok THEN Fail(ErrInvalidStartDate)
        ELSE IF ~to.ok THEN Fail(ErrInvalidEndDate)
        ELSE IF ~After(to.t, from.t) THEN Fail(ErrInvalidEndDate)
        ELSE IF out.err # Nil
             THEN Result(out.err, NoSub, <<>>, 0, <<RepoCall("Sum", sumFilter)>>)
             ELSE Result(Nil, NoSub, <<>>, out.total, <<RepoCall("Sum", sumFilter)>>)

\* the service name sent to the repository as received, not trimmed
C14MutServiceSum(flt, out) ==
    LET name == TrimSpace(flt.ServiceName)
        from == TimeParse(flt.From)
        to   == TimeParse(flt.To)
        sumFilter == [UserID |-> flt.UserID, ServiceName |-> flt.ServiceName,
                      From |-> from.t, To |-> to.t]
    IN  IF name = "" THEN Fail(ErrInvalidServiceName)
        ELSE IF ~UUIDParse(flt.UserID) THEN Fail(ErrInvalidUserID)
        ELSE IF ~from.ok THEN Fail(ErrInvalidStartDate)
        ELSE IF ~to.ok THEN Fail(ErrInvalidEndDate)
        ELSE IF Before(to.t, from.t) THEN Fail(ErrInvalidEndDate)
        ELSE IF out.err # Nil
             THEN Result(out.err, NoSub, <<>>, 0, <<RepoCall("Sum", sumFilter)>>)
             ELSE Result(Nil, NoSub, <<>>, out.total, <<RepoCall("Sum", sumFilter)>>)

\* Service.Sum(ctx, filter)
ServiceSum(flt, out) ==
    LET name == TrimSpace(flt.ServiceName)
        from == TimeParse(flt.From)
        to   == TimeParse(flt.To)
        sumFilter == [UserID |-> flt.UserID, ServiceName |-> name,
                      From |-> from.t, To |-> to.t]
    IN  IF name = "" THEN Fail(ErrInvalidServiceName)
        ELSE IF ~UUIDParse(flt.UserID) THEN Fail(ErrInvalidUserID)
        ELSE IF ~from.ok THEN Fail(ErrInvalidStartDate)
        ELSE IF ~to.ok THEN Fail(ErrInvalidEndDate)
        ELSE IF Before(to.t, from.t) THEN Fail(ErrInvalidEndDate)
        ELSE IF out.err # Nil
             THEN Result(out.err, NoSub, <<>>, 0, <<RepoCall("Sum", sumFilter)>>)
             ELSE Result(Nil, NoSub, <<>>, out.total, <<RepoCall("Sum", sumFilter)>>)

----------------------------------------------------------------------------
(* The service on a repository that answers as Storage can *)

ValidUUID == "550e8400-e29b-41d4-a716-446655440000"

ServiceNames == {"Netflix", "  Netflix  ", "   "}
PriceInputs  == {-1, 0, 1, 100}
UserIDs      == {ValidUUID, "not-uuid"}
StartDates   == {"01-2024", "02-2024", "2024-01-01"}
EndDates     == {Nil, Ptr(""), Ptr("12-2023"), Ptr("01-2024"), Ptr("02-2024"),
                 Ptr("2024-01-01")}
FromDates    == {"01-2024", "02-2024", "2024-01-01"}
ToDates      == {"12-2023", "01-2024", "02-2024", "2024-02-01"}
IDs          == (0 - 1)..MaxID

CreateSubscriptions ==
    [ServiceName : ServiceNames, Price : PriceInputs, UserID : UserIDs,
     StartDate : StartDates, EndDate : EndDates]

FiltersForSum ==
    [UserID : UserIDs, ServiceName : ServiceNames, From : FromDates, To : ToDates]

\* a row as Storage.Get and Storage.List scan it
StoredSub(id) ==
    [ID |-> id, ServiceName |-> "Netflix", Price |-> 100, UserID |-> ValidUUID,
     StartDate |-> Date(2024, 1, 1), EndDate |-> Nil]

Answer(err, id, sub, subs, total) ==
    [err |-> err, id |-> id, sub |-> sub, subs |-> subs, total |-> total]
Failed(err) == Answer(err, 0, NoSub, <<>>, 0)

\* what Storage.Create, Get, Update, Delete, List and Sum return
CreateAnswers ==
    {Answer(Nil, 10, NoSub, <<>>, 0), Failed(Wrap("failed to create new row", DriverErr))}
GetAnswers(id) ==
    {Answer(Nil, 0, Ptr(StoredSub(id)), <<>>, 0),
     Failed(Wrap("failed to get subscription", SqlErrNoRows)),
     Failed(Wrap("failed to get subscription", DriverErr))}
UpdateAnswers ==
    {Answer(Nil, 0, NoSub, <<>>, 0), Failed(SqlErrNoRows),
     Failed(Wrap("failed to update table", SqlErrNoRows)),
     Failed(Wrap("failed to update table", DriverErr))}
DeleteAnswers ==
    {Answer(Nil, 0, NoSub, <<>>, 0), Failed(SqlErrNoRows),
     Failed(Wrap("failed to delete subscription", SqlErrNoRows)),
     Failed(Wrap("failed to delete subscription", DriverErr))}
ListAnswers ==
    {Answer(Nil, 0, NoSub, <<>>, 0), Answer(Nil, 0, NoSub, <<StoredSub(1)>>, 0),
     Failed(Wrap("scan rows", DriverErr))}
SumAnswers ==
    {Answer(Nil, 0, NoSub, <<>>, 1500), Failed(Wrap("query failed", DriverErr))}

InitSvc ==
    /\ call = Nil /\ ret = Nil /\ repo = <<>>
    /\ rows = <<>> /\ fault = NoFault /\ sumOut = NotCalled
    /\ turns = <<>> /\ listOut = Nil
    /\ filter = [UserID |-> "", ServiceName |-> "", From |-> Date(1, 1, 1),
                 To |-> Date(1, 1, 1)]
    /\ HttpIdle /\ AppIdle /\ ConcIdle /\ DbIdle /\ LogIdle

\* A call of a service method as the state records it: its arguments and the
\* repository's answer to the call it may make; what it returned.
CallOf(op, id, data, out) == [op |-> op, id |-> id, data |-> data, out |-> out]
RetOf(res) == [err |-> res.err, sub |-> res.sub, subs |-> res.subs, total |-> res.total]

Create ==
    \E data \in CreateSubscriptions, out \in CreateAnswers :
        /\ call = Nil
        /\ call' = CallOf("Create", 0, data, out)
        /\ ret' = RetOf(ServiceCreate(data, out))
        /\ repo' = ServiceCreate(data, out).repo
        /\ UNCHANGED <<aggVars, httpVars, appVars, concVars, dbVars, logVars>>

Get ==
    \E id \in IDs : \E out \in GetAnswers(id) :
        /\ call = Nil
        /\ call' = CallOf("Get", id, Nil, out)
        /\ ret' = RetOf(ServiceGet(id, out))
        /\ repo' = ServiceGet(id, out).repo
        /\ UNCHANGED <<aggVars, httpVars, appVars, concVars, dbVars, logVars>>

Update ==
    \E id \in IDs, data \in CreateSubscriptions, out \in UpdateAnswers :
        /\ call = Nil
        /\ call' = CallOf("Update", id, data, out)
        /\ ret' = RetOf(ServiceUpdate(id, data, out))
        /\ repo' = ServiceUpdate(id, data, out).repo
        /\ UNCHANGED <<aggVars, httpVars, appVars, concVars, dbVars, logVars>>

Delete ==
    \E id \in IDs, out \in DeleteAnswers :
        /\ call = Nil
        /\ call' = CallOf("Delete", id, Nil, out)
        /\ ret' = RetOf(ServiceDelete(id, out))
        /\ repo' = ServiceDelete(id, out).repo
        /\ UNCHANGED <<aggVars, httpVars, appVars, concVars, dbVars, logVars>>

List ==
    \E userID \in UserIDs, out \in ListAnswers :
        /\ call = Nil
        /\ call' = CallOf("List", 0, [UserID |-> userID], out)
        /\ ret' = RetOf(ServiceList(userID, out))
        /\ repo' = ServiceList(userID, out).repo
        /\ UNCHANGED <<aggVars, httpVars, appVars, concVars, dbVars, logVars>>

Sum ==
    \E flt \in FiltersForSum, out \in SumAnswers :
        /\ call = Nil
        /\ call' = CallOf("Sum", 0, flt, out)
        /\ ret' = RetOf(ServiceSum(flt, out))
        /\ repo' = ServiceSum(flt, out).repo
        /\ UNCHANGED <<aggVars, httpVars, appVars, concVars, dbVars, logVars>>

NextSvc == Create \/ Get \/ Update \/ Delete \/ List \/ Sum

SpecSvc == InitSvc /\ [][NextSvc]_vars

----------------------------------------------------------------------------
(* Month strings put to the date fields of Create, Update and Sum, the other *)
(* fields valid                                                              *)

Digit(n) == Char(DecDigits, n + 1)

\* t.Format("01-2006") of the month (y, m): two digits, "-", four digits
FormatMonth(y, m) ==
    Digit(m \div 10) \o Digit(m % 10) \o "-" \o
    Digit(y \div 1000) \o Digit((y \div 100) % 10) \o Digit((y \div 10) % 10) \o
    Digit(y % 10)

ParseYears == {0, 1, 1999, 2024, 9999}
ParseMonths == 1..12

\* every month of ParseYears in the form MM-YYYY
MonthStrings == {FormatMonth(y, m) : y \in ParseYears, m \in ParseMonths}

\* strings that are not of the form: wrong separator, one-digit month,
\* two-digit year, month outside 01..12, not numeric, a day component,
\* surrounding text
NotMonthStrings ==
    {"01/2024", "01.2024", "012024", "1-2024", "01-24", "01-024", "00-2024",
     "13-2024", "99-2024", "ab-2024", "01-20x4", "0a-2024", "2024-01",
     "2024-01-01", "01-2024-15", "15-01-2024", "01-20245", " 01-2024",
     "01-2024 ", "-2024", "01-", "-"}

DateStrings == MonthStrings \cup NotMonthStrings

FirstMonth == FormatMonth(0, 1)
LastMonth  == FormatMonth(9999, 12)

ValidData(start, end) ==
    [ServiceName |-> "Netflix", Price |-> 100, UserID |-> ValidUUID,
     StartDate |-> start, EndDate |-> end]

ValidFilter(from, to) ==
    [UserID |-> ValidUUID, ServiceName |-> "Netflix", From |-> from, To |-> to]

ParseStartDate ==
    \E s \in DateStrings, op \in {"Create", "Update"} :
        LET data == ValidData(s, Nil)
            out  == Answer(Nil, 10, NoSub, <<>>, 0)
            res  == IF op = "Create" THEN ServiceCreate(data, out)
                    ELSE ServiceUpdate(1, data, out)
        IN  /\ call = Nil
            /\ call' = CallOf(op, 1, data, out)
            /\ ret' = RetOf(res)
            /\ repo' = res.repo
            /\ UNCHANGED <<aggVars, httpVars, appVars, concVars, dbVars, logVars>>

ParseEndDate ==
    \E s \in DateStrings, op \in {"Create", "Update"} :
        LET data == ValidData(FirstMonth, Ptr(s))
            out  == Answer(Nil, 10, NoSub, <<>>, 0)
            res  == IF op = "Create" THEN ServiceCreate(data, out)
                    ELSE ServiceUpdate(1, data, out)
        IN  /\ call = Nil
            /\ call' = CallOf(op, 1, data, out)
            /\ ret' = RetOf(res)
            /\ repo' = res.repo
            /\ UNCHANGED <<aggVars, httpVars, appVars, concVars, dbVars, logVars>>

ParseFrom ==
    \E s \in DateStrings :
        LET flt == ValidFilter(s, LastMonth)
            out == Answer(Nil, 0, NoSub, <<>>, 1500)
        IN  /\ call = Nil
            /\ call' = CallOf("Sum", 0, flt, out)
            /\ ret' = RetOf(ServiceSum(flt, out))
            /\ repo' = ServiceSum(flt, out).repo
            /\ UNCHANGED <<aggVars, httpVars, appVars, concVars, dbVars, logVars>>

ParseTo ==
    \E s \in DateStrings :
        LET flt == ValidFilter(FirstMonth, s)
            out == Answer(Nil, 0, NoSub, <<>>, 1500)
        IN  /\ call = Nil
            /\ call' = CallOf("Sum", 0, flt, out)
            /\ ret' = RetOf(ServiceSum(flt, out))
            /\ repo' = ServiceSum(flt, out).repo
            /\ UNCHANGED <<aggVars, httpVars, appVars, concVars, dbVars, logVars>>

NextParse == ParseStartDate \/ ParseEndDate \/ ParseFrom \/ ParseTo

SpecParse == InitSvc /\ [][NextParse]_vars

----------------------------------------------------------------------------
(* HTTP handlers (internal/handlers/handler.go).  A handler is the response *)
(* it writes, the call it makes on the service, if any, and what that call  *)
(* returned and sent to the repository.                                     *)

StatusOK                  == 200
StatusCreated             == 201
StatusNoContent           == 204
StatusBadRequest          == 400
StatusNotFound            == 404
StatusInternalServerError == 500

\* http.Error(w, msg, code)
HttpError(msg, code) ==
    [status |-> code, ctype |-> "text/plain; charset=utf-8", body |-> msg \o "\n"]

\* Content-Type application/json, WriteHeader(code), json.NewEncoder(w).Encode(v)
WriteJSON(code, v) ==
    [status |-> code, ctype |-> "application/json", body |-> [json |-> v]]

\* WriteHeader(code) and no body
WriteHeader(code) == [status |-> code, ctype |-> "", body |-> ""]

NoService(response) ==
    [resp |-> response, call |-> Nil, ret |-> Nil, repo |-> <<>>]
Served(response, op, id, data, out, res) ==
    [resp |-> response, call |-> CallOf(op, id, data, out), ret |-> RetOf(res),
     repo |-> res.repo]

\* the zero value of service.CreateSubscription
ZeroData ==
    [ServiceName |-> "", Price |-> 0, UserID |-> "", StartDate |-> "", EndDate |-> Nil]

\* json.NewDecoder(r.Body).Decode(&req): [ok, data].  A body is [kind, fields]:
\* an object whose members have the types of CreateSubscription decodes to
\* its fields; text that is not JSON, or a member of another type, is an error.
JSONDecode(body) ==
    IF body.kind = "object" THEN [ok |-> TRUE, data |-> body.fields]
    ELSE [ok |-> FALSE, data |-> ZeroData]

StripSign(s) ==
    IF Len(s) > 0 /\ Char(s, 1) \in {"+", "-"} THEN SubSeq(s, 2, Len(s)) ELSE s

RECURSIVE StripZeros(_)
StripZeros(s) ==
    IF Len(s) > 1 /\ Char(s, 1) = "0" THEN StripZeros(SubSeq(s, 2, Len(s))) ELSE s

\* a <= b for two strings of digits of the same length
RECURSIVE DigitsLeq(_, _)
DigitsLeq(a, b) ==
    IF Len(a) = 0 THEN TRUE
    ELSE IF DigitValue(Char(a, 1)) < DigitValue(Char(b, 1)) THEN TRUE
    ELSE IF DigitValue(Char(a, 1)) > DigitValue(Char(b, 1)) THEN FALSE
    ELSE DigitsLeq(SubSeq(a, 2, Len(a)), SubSeq(b, 2, Len(b)))

\* the digits denote a value of int64
InInt64(digits, negative) ==
    LET d == StripZeros(digits)
    IN  \/ Len(d) < 19
        \/ /\ Len(d) = 19
           /\ DigitsLeq(d, IF negative THEN "9223372036854775808"
                           ELSE "9223372036854775807")

\* strconv.ParseInt(s, 10, 64): [ok, v], ok is err == nil
ParseInt(s) ==
    LET digits   == StripSign(s)
        negative == Len(s) > 0 /\ Char(s, 1) = "-"
    IN  IF Len(digits) = 0 \/ ~AllDigits(digits) \/ ~InInt64(digits, negative)
        THEN [ok |-> FALSE, v |-> 0]
        ELSE [ok |-> TRUE, v |-> IF negative THEN 0 - Atoi(digits) ELSE Atoi(digits)]

\* POST /subscriptions
CreateSubscriptionHandler(body, out) ==
    LET dec == JSONDecode(body)
        res == ServiceCreate(dec.data, out)
        response ==
            IF res.err # Nil
            THEN IF ErrorsIs(res.err, ErrInvalidServiceName)
                 THEN HttpError("Invalid service name", StatusBadRequest)
                 ELSE IF ErrorsIs(res.err, ErrInvalidPrice)
                 THEN HttpError("invalid price", StatusBadRequest)
                 ELSE IF ErrorsIs(res.err, ErrInvalidUserID)
                 THEN HttpError("invalid userID", StatusBadRequest)
                 ELSE IF ErrorsIs(res.err, ErrInvalidStartDate)
                 THEN HttpError("invalid start date", StatusBadRequest)
                 ELSE IF ErrorsIs(res.err, ErrInvalidEndDate)
                 THEN HttpError("invalid end date", StatusBadRequest)
                 ELSE HttpError("internal server error", StatusInternalServerError)
            ELSE WriteJSON(StatusCreated, Deref(res.sub))
    IN  IF ~dec.ok THEN NoService(HttpError("Invalid JSON format", StatusBadRequest))
        ELSE Served(response, "Create", 0, dec.data, out, res)

\* the id taken as 0 when it is not an integer, and the service called
C18MutGetSubscriptionHandler(idStr, out) ==
    LET id  == ParseInt(idStr)
        res == ServiceGet(id.v, out)
        response ==
            IF res.err # Nil
            THEN IF ErrorsIs(res.err, ErrInvalidID)
                 THEN HttpError("invalid id", StatusBadRequest)
                 ELSE IF ErrorsIs(res.err, ErrSubscriptionNotFound)
                 THEN HttpError("subscription not found", StatusNotFound)
                 ELSE HttpError("internal server error", StatusInternalServerError)
            ELSE WriteJSON(StatusOK, Deref(res.sub))
    IN  IF idStr = "" THEN NoService(HttpError("invalid request id", StatusBadRequest))
        ELSE Served(response, "Get", id.v, Nil, out, res)

\* GET /subscriptions/{id}
GetSubscriptionHandler(idStr, out) ==
    LET id  == ParseInt(idStr)
        res == ServiceGet(id.v, out)
        response ==
            IF res.err # Nil
            THEN IF ErrorsIs(res.err, ErrInvalidID)
                 THEN HttpError("invalid id", StatusBadRequest)
                 ELSE IF ErrorsIs(res.err, ErrSubscriptionNotFound)
                 THEN HttpError("subscription not found", StatusNotFound)
                 ELSE HttpError("internal server error", StatusInternalServerError)
            ELSE WriteJSON(StatusOK, Deref(res.sub))
    IN  IF idStr = "" THEN NoService(HttpError("invalid request id", StatusBadRequest))
        ELSE IF ~id.ok THEN NoService(HttpError("id must be integer", StatusBadRequest))
        ELSE Served(response, "Get", id.v, Nil, out, res)

\* the case of ErrSubscriptionNotFound left out of the switch
C17MutUpdateSubscriptionHandler(idStr, body, out) ==
    LET id  == ParseInt(idStr)
        dec == JSONDecode(body)
        res == ServiceUpdate(id.v, dec.data, out)
        response ==
            IF res.err # Nil
            THEN IF ErrorsIs(res.err, ErrInvalidID)
                 THEN HttpError("invalid id", StatusBadRequest)
                 ELSE IF ErrorsIs(res.err, ErrInvalidServiceName)
                 THEN HttpError("invalid service name", StatusBadRequest)
                 ELSE IF ErrorsIs(res.err, ErrInvalidPrice)
                 THEN HttpError("invalid price", StatusBadRequest)
                 ELSE IF ErrorsIs(res.err, ErrInvalidUserID)
                 THEN HttpError("invalid user id", StatusBadRequest)
                 ELSE IF ErrorsIs(res.err, ErrInvalidStartDate)
                 THEN HttpError("invalid start date", StatusBadRequest)
                 ELSE IF ErrorsIs(res.err, ErrInvalidEndDate)
                 THEN HttpError("invalid end date", StatusBadRequest)
                 ELSE HttpError("internal server error", StatusInternalServerError)
            ELSE WriteHeader(StatusNoContent)
    IN  IF idStr = "" THEN NoService(HttpError("invalid id", StatusBadRequest))
        ELSE IF ~id.ok THEN NoService(HttpError("id must be integer", StatusBadRequest))
        ELSE IF ~dec.ok
             THEN NoService(HttpError("Invalid JSON format", StatusBadRequest))
        ELSE Served(response, "Update", id.v, dec.data, out, res)

\* PUT /subscriptions/{id}
UpdateSubscriptionHandler(idStr, body, out) ==
    LET id  == ParseInt(idStr)
        dec == JSONDecode(body)
        res == ServiceUpdate(id.v, dec.data, out)
        response ==
            IF res.err # Nil
            THEN IF ErrorsIs(res.err, ErrInvalidID)
                 THEN HttpError("invalid id", StatusBadRequest)
                 ELSE IF ErrorsIs(res.err, ErrInvalidServiceName)
                 THEN HttpError("invalid service name", StatusBadRequest)
                 ELSE IF ErrorsIs(res.err, ErrInvalidPrice)
                 THEN HttpError("invalid price", StatusBadRequest)
                 ELSE IF ErrorsIs(res.err, ErrInvalidUserID)
                 THEN HttpError("invalid user id", StatusBadRequest)
                 ELSE IF ErrorsIs(res.err, ErrInvalidStartDate)
                 THEN HttpError("invalid start date", StatusBadRequest)
                 ELSE IF ErrorsIs(res.err, ErrInvalidEndDate)
                 THEN HttpError("invalid end date", StatusBadRequest)
                 ELSE IF ErrorsIs(res.err, ErrSubscriptionNotFound)
                 THEN HttpError("subscription not found", StatusNotFound)
                 ELSE HttpError("internal server error", StatusInternalServerError)
            ELSE WriteHeader(StatusNoContent)
    IN  IF idStr = "" THEN NoService(HttpError("invalid id", StatusBadRequest))
        ELSE IF ~id.ok THEN NoService(HttpError("id must be integer", StatusBadRequest))
        ELSE IF ~dec.ok
             THEN NoService(HttpError("Invalid JSON format", StatusBadRequest))
        ELSE Served(response, "Update", id.v, dec.data, out, res)

\* DELETE /subscriptions/{id}
DeleteSubscriptionsHandler(idStr, out) ==
    LET id  == ParseInt(idStr)
        res == ServiceDelete(id.v, out)
        response ==
            IF res.err # Nil
            THEN IF ErrorsIs(res.err, ErrInvalidID)
                 THEN HttpError("invalid id", StatusBadRequest)
                 ELSE IF ErrorsIs(res.err, ErrSubscriptionNotFound)
                 THEN HttpError("subscription not found", StatusNotFound)
                 ELSE HttpError("internal server error", StatusInternalServerError)
            ELSE WriteHeader(StatusNoContent)
    IN  IF idStr = "" THEN NoService(HttpError("invalid request id", StatusBadRequest))
        ELSE IF ~id.ok THEN NoService(HttpError("id must be integer", StatusBadRequest))
        ELSE Served(response, "Delete", id.v, Nil, out, res)

\* GET /subscriptions?user_id=
ListSubscriptionHandler(query, out) ==
    LET userID == query.user_id
        res    == ServiceList(userID, out)
        response ==
            IF res.err # Nil
            THEN IF ErrorsIs(res.err, ErrInvalidUserID)
                 THEN HttpError("invalid userID", StatusBadRequest)
                 ELSE HttpError("internal server error", StatusInternalServerError)
            ELSE WriteJSON(StatusOK, res.subs)
    IN  IF userID = ""
        THEN NoService(HttpError("invalid userID in request", StatusBadRequest))
        ELSE Served(response, "List", 0, [UserID |-> userID], out, res)

\* GET /subscriptions/sum?user_id=&service_name=&from=&to=
SumSubscriptionHandler(query, out) ==
    LET flt == [UserID |-> query.user_id, ServiceName |-> query.service_name,
                From |-> query.from, To |-> query.to]
        res == ServiceSum(flt, out)
        response ==
            IF res.err # Nil
            THEN IF ErrorsIs(res.err, ErrInvalidServiceName)
                 THEN HttpError("invalid service name", StatusBadRequest)
                 ELSE IF ErrorsIs(res.err, ErrInvalidUserID)
                 THEN HttpError("invalid userID", StatusBadRequest)
                 ELSE IF ErrorsIs(res.err, ErrInvalidStartDate)
                 THEN HttpError("invalid start date", StatusBadRequest)
                 ELSE IF ErrorsIs(res.err, ErrInvalidEndDate)
                 THEN HttpError("invalid end date", StatusBadRequest)
                 ELSE HttpError("internal server error", StatusInternalServerError)
            ELSE WriteJSON(StatusOK, [total |-> res.total])
    IN  IF query.user_id = "" \/ query.service_name = "" \/ query.from = ""
           \/ query.to = ""
        THEN NoService(HttpError("user_id, service_name, from, to are required",
                                 StatusBadRequest))
        ELSE Served(response, "Sum", 0, flt, out, res)

----------------------------------------------------------------------------
(* The handlers on a service whose repository answers as Storage can *)

RECURSIVE FormatNat(_)
FormatNat(n) == IF n < 10 THEN Digit(n) ELSE FormatNat(n \div 10) \o Digit(n % 10)

\* strconv.FormatInt(i, 10)
FormatInt(i) == IF i < 0 THEN "-" \o FormatNat(0 - i) ELSE FormatNat(i)

\* the {id} of the path: absent, not a number, outside int64, and the ids
PathIDs ==
    {"", "abc", "1.5", "1a", " 1", "-", "9223372036854775808"}
        \cup {"+1", "007"} \cup {FormatInt(i) : i \in IDs}

\* request bodies: text that is not JSON, a price that is not a number, the
\* empty object, and the subscriptions
Bodies ==
    {[kind |-> "malformed", fields |-> ZeroData],
     [kind |-> "mistyped", fields |-> ZeroData],
     [kind |-> "object", fields |-> ZeroData]}
        \cup {[kind |-> "object", fields |-> d] : d \in CreateSubscriptions}

\* r.URL.Query().Get(name) for each parameter: "" when it is absent
ListQueries == [user_id : {""} \cup UserIDs]
SumQueries ==
    [user_id : {""} \cup UserIDs, service_name : {"", "Netflix", "   "},
     from : {"", "01-2024", "2024-01-01"}, to : {"", "12-2023", "01-2024"}]

Request(handler, id, body, query, out) ==
    [handler |-> handler, id |-> id, body |-> body, query |-> query, out |-> out]

InitHttp == AggIdle /\ SvcIdle /\ HttpIdle /\ AppIdle /\ ConcIdle /\ DbIdle /\ LogIdle

PostSubscription ==
    /\ req = Nil
    /\ \E body \in Bodies, out \in CreateAnswers :
        /\ req' = Request("CreateSubscriptionHandler", "", body, Nil, out)
        /\ LET h == CreateSubscriptionHandler(body, out)
           IN  /\ resp' = h.resp /\ call' = h.call /\ ret' = h.ret /\ repo' = h.repo
               /\ UNCHANGED <<aggVars, appVars, concVars, dbVars, logVars>>

GetSubscription ==
    /\ req = Nil
    /\ \E idStr \in PathIDs : \E out \in GetAnswers(ParseInt(idStr).v) :
        /\ req' = Request("GetSubscriptionHandler", idStr, Nil, Nil, out)
        /\ LET h == GetSubscriptionHandler(idStr, out)
           IN  /\ resp' = h.resp /\ call' = h.call /\ ret' = h.ret /\ repo' = h.repo
               /\ UNCHANGED <<aggVars, appVars, concVars, dbVars, logVars>>

PutSubscription ==
    /\ req = Nil
    /\ \E idStr \in PathIDs, body \in Bodies, out \in UpdateAnswers :
        /\ req' = Request("UpdateSubscriptionHandler", idStr, body, Nil, out)
        /\ LET h == UpdateSubscriptionHandler(idStr, body, out)
           IN  /\ resp' = h.resp /\ call' = h.call /\ ret' = h.ret /\ repo' = h.repo
               /\ UNCHANGED <<aggVars, appVars, concVars, dbVars, logVars>>

DeleteSubscription ==
    /\ req = Nil
    /\ \E idStr \in PathIDs, out \in DeleteAnswers :
        /\ req' = Request("DeleteSubscriptionsHandler", idStr, Nil, Nil, out)
        /\ LET h == DeleteSubscriptionsHandler(idStr, out)
           IN  /\ resp' = h.resp /\ call' = h.call /\ ret' = h.ret /\ repo' = h.repo
               /\ UNCHANGED <<aggVars, appVars, concVars, dbVars, logVars>>

GetSubscriptions ==
    /\ req = Nil
    /\ \E query \in ListQueries, out \in ListAnswers :
        /\ req' = Request("ListSubscriptionHandler", "", Nil, query, out)
        /\ LET h == ListSubscriptionHandler(query, out)
           IN  /\ resp' = h.resp /\ call' = h.call /\ ret' = h.ret /\ repo' = h.repo
               /\ UNCHANGED <<aggVars, appVars, concVars, dbVars, logVars>>

GetSubscriptionsSum ==
    /\ req = Nil
    /\ \E query \in SumQueries, out \in SumAnswers :
        /\ req' = Request("SumSubscriptionHandler", "", Nil, query, out)
        /\ LET h == SumSubscriptionHandler(query, out)
           IN  /\ resp' = h.resp /\ call' = h.call /\ ret' = h.ret /\ repo' = h.repo
               /\ UNCHANGED <<aggVars, appVars, concVars, dbVars, logVars>>

NextHttp ==
    \/ PostSubscription \/ GetSubscription \/ PutSubscription
    \/ DeleteSubscription \/ GetSubscriptions \/ GetSubscriptionsSum

SpecHttp == InitHttp /\ [][NextHttp]_vars

----------------------------------------------------------------------------
(* App.Run (internal/app/app.go): the http.Server, the goroutine that shuts *)
(* it down when the context is done, and ListenAndServe                     *)

\* the connections the server serves at once
MaxConns == 4

ErrServerClosed == <<"http: Server closed">>
ErrListen       == <<"listen tcp: bind: address already in use">>
ErrAccept       == <<"accept tcp: too many open files">>

\* http.Server{Addr: addr, Handler: a.router}
\* active: connections with a request being served; idle: kept-alive ones
NewServer == [inShutdown |-> FALSE, listening |-> FALSE, active |-> 0, idle |-> 0]

\* Run reports every error of ListenAndServe but http.ErrServerClosed
C19MutRunReturn(err) == err

\* what Run returns when srv.ListenAndServe() returns err
RunReturn(err) == IF err # Nil /\ err # ErrServerClosed THEN err ELSE Nil

RunReturned(err) == [pc |-> "returned", lasErr |-> err, ret |-> RunReturn(err)]

\* Run is entered with a context that may be cancelled already
InitApp ==
    /\ AggIdle /\ SvcIdle /\ HttpIdle /\ ConcIdle /\ DbIdle /\ LogIdle
    /\ ctxDone \in BOOLEAN
    /\ srv = NewServer
    /\ run = [pc |-> "entry", lasErr |-> Nil, ret |-> Nil]
    /\ shut = "unstarted"

\* cancel() of the context, by whoever holds it
Cancel ==
    /\ ~ctxDone
    /\ ctxDone' = TRUE
    /\ UNCHANGED <<srv, run, shut, aggVars, svcVars, httpVars, concVars, dbVars, logVars>>

\* go func() { <-ctx.Done() ...
GoShutdown ==
    /\ run.pc = "entry"
    /\ run' = [run EXCEPT !.pc = "listen"]
    /\ shut' = "waiting"
    /\ UNCHANGED <<ctxDone, srv, aggVars, svcVars, httpVars, concVars, dbVars, logVars>>

\* <-ctx.Done() returns and srv.Shutdown(shutCtx) begins: the server is marked
\* as shutting down and its listeners are closed
ShutdownBegin ==
    /\ shut = "waiting" /\ ctxDone
    /\ shut' = "shutdown"
    /\ srv' = [srv EXCEPT !.inShutdown = TRUE, !.listening = FALSE]
    /\ UNCHANGED <<ctxDone, run, aggVars, svcVars, httpVars, concVars, dbVars, logVars>>

\* srv.Shutdown closes the idle connections and, none being active, returns
ShutdownEnd ==
    /\ shut = "shutdown" /\ srv.active = 0
    /\ shut' = "done"
    /\ srv' = [srv EXCEPT !.idle = 0]
    /\ UNCHANGED <<ctxDone, run, aggVars, svcVars, httpVars, concVars, dbVars, logVars>>

\* the 5 seconds of shutCtx are over while a request is still served:
\* srv.Shutdown returns the context's error, which the goroutine drops
ShutdownTimeout ==
    /\ shut = "shutdown" /\ srv.active > 0
    /\ shut' = "deadline"
    /\ srv' = [srv EXCEPT !.idle = 0]
    /\ UNCHANGED <<ctxDone, run, aggVars, svcVars, httpVars, concVars, dbVars, logVars>>

\* srv.ListenAndServe() begins: ErrServerClosed at once if the server is
\* shutting down, else net.Listen, which may fail
Listen ==
    /\ run.pc = "listen"
    /\ \/ /\ srv.inShutdown
          /\ run' = RunReturned(ErrServerClosed)
          /\ srv' = srv
       \/ /\ ~srv.inShutdown
          /\ run' = [run EXCEPT !.pc = "serving"]
          /\ srv' = [srv EXCEPT !.listening = TRUE]
       \/ /\ ~srv.inShutdown
          /\ run' = RunReturned(ErrListen)
          /\ srv' = srv
    /\ UNCHANGED <<ctxDone, shut, aggVars, svcVars, httpVars, concVars, dbVars, logVars>>

\* Serve accepts a connection and serves its first request in a goroutine
Accept ==
    /\ run.pc = "serving" /\ srv.listening /\ srv.active + srv.idle < MaxConns
    /\ srv' = [srv EXCEPT !.active = @ + 1]
    /\ UNCHANGED <<ctxDone, run, shut, aggVars, svcVars, httpVars, concVars, dbVars, logVars>>

\* a handler returns: the connection is kept alive, unless the server is
\* shutting down, when it is closed
RequestDone ==
    /\ srv.active > 0
    /\ srv' = [srv EXCEPT !.active = @ - 1,
                          !.idle = IF srv.inShutdown THEN @ ELSE @ + 1]
    /\ UNCHANGED <<ctxDone, run, shut, aggVars, svcVars, httpVars, concVars, dbVars, logVars>>

\* the next request arrives on a kept-alive connection
RequestNext ==
    /\ srv.idle > 0
    /\ srv' = [srv EXCEPT !.idle = @ - 1, !.active = @ + 1]
    /\ UNCHANGED <<ctxDone, run, shut, aggVars, svcVars, httpVars, concVars, dbVars, logVars>>

\* the client closes a kept-alive connection
ConnClose ==
    /\ srv.idle > 0
    /\ srv' = [srv EXCEPT !.idle = @ - 1]
    /\ UNCHANGED <<ctxDone, run, shut, aggVars, svcVars, httpVars, concVars, dbVars, logVars>>

\* Accept fails for good while the server is not shutting down
AcceptFail ==
    /\ run.pc = "serving" /\ ~srv.inShutdown
    /\ run' = RunReturned(ErrAccept)
    /\ srv' = [srv EXCEPT !.listening = FALSE]
    /\ UNCHANGED <<ctxDone, shut, aggVars, svcVars, httpVars, concVars, dbVars, logVars>>

\* Accept fails on the closed listener of a server that is shutting down:
\* Serve, and so ListenAndServe, returns ErrServerClosed
ServeClosed ==
    /\ run.pc = "serving" /\ srv.inShutdown
    /\ run' = RunReturned(ErrServerClosed)
    /\ UNCHANGED <<ctxDone, srv, shut, aggVars, svcVars, httpVars, concVars, dbVars, logVars>>

NextApp ==
    \/ Cancel \/ GoShutdown \/ ShutdownBegin \/ ShutdownEnd \/ ShutdownTimeout
    \/ Listen \/ Accept \/ RequestDone \/ RequestNext \/ ConnClose
    \/ AcceptFail \/ ServeClosed

\* a goroutine that can run does run: Run itself and the shutdown goroutine
FairApp ==
    /\ WF_vars(GoShutdown) /\ WF_vars(Listen) /\ WF_vars(ServeClosed)
    /\ WF_vars(ShutdownBegin) /\ WF_vars(ShutdownEnd \/ ShutdownTimeout)

SpecApp == InitApp /\ [][NextApp]_vars /\ FairApp

----------------------------------------------------------------------------
(* Concurrent invocations of Service.Sum over Storage.Sum.  Each invocation *)
(* has its own locals (the filter, the cursor, total); the table is what    *)
(* they share, and Sum only reads it.  A step is one of: the validation of  *)
(* Service.Sum, the query, the scan of one row, the return.                 *)

\* the invocations running at once
MaxProcs == 2

ConcRows ==
    {[price |-> 100, start_date |-> Date(2024, 1, 1), end_date |-> Nil],
     [price |-> 50, start_date |-> Date(2024, 2, 1), end_date |-> Ptr(Date(2024, 2, 1))]}

ConcFilters ==
    {ValidFilter("01-2024", "03-2024"), ValidFilter("02-2024", "02-2024"),
     ValidFilter("02-2024", "01-2024"), ValidFilter("2024-01-01", "03-2024")}

NoSumFilter ==
    [UserID |-> "", ServiceName |-> "", From |-> Date(1, 1, 1), To |-> Date(1, 1, 1)]

\* the locals of an invocation entered with the filter flt
Entered(flt) ==
    [flt |-> flt, pc |-> "validate", sumFilter |-> NoSumFilter, rows |-> <<>>,
     i |-> 0, total |-> 0, out |-> Nil]

\* total of invocation p is one variable for all invocations
C20MutSetTotal(locals, p, v) ==
    [q \in DOMAIN locals |-> [locals[q] EXCEPT !.total = v]]

\* total := 0 and total += price * months, of invocation p
SetTotal(locals, p, v) == [locals EXCEPT ![p].total = v]

InitConc ==
    /\ AggIdle /\ SvcIdle /\ HttpIdle /\ AppIdle /\ DbIdle /\ LogIdle
    /\ table \in SeqsUpTo(ConcRows, MaxRows)
    /\ \E n \in 1..MaxProcs : inv \in [1..n -> {Entered(flt) : flt \in ConcFilters}]

\* Service.Sum up to the call of the repository: a failed check returns its
\* error, else the filter for the repository is built
Validate(p) ==
    LET res == ServiceSum(inv[p].flt, Answer(Nil, 0, NoSub, <<>>, 0))
    IN  /\ inv[p].pc = "validate"
        /\ inv' = IF res.repo = <<>>
                  THEN [inv EXCEPT ![p].pc = "done",
                                   ![p].out = [total |-> 0, err |-> res.err]]
                  ELSE [inv EXCEPT ![p].pc = "query",
                                   ![p].sumFilter = res.repo[1].arg]
        /\ UNCHANGED <<table, aggVars, svcVars, httpVars, appVars, dbVars, logVars>>

\* s.db.QueryContext: the cursor is over the rows of the table as they are
\* now; total := 0
Query(p) ==
    /\ inv[p].pc = "query"
    /\ inv' = SetTotal([inv EXCEPT ![p].pc = "scan", ![p].rows = table, ![p].i = 0],
                       p, 0)
    /\ UNCHANGED <<table, aggVars, svcVars, httpVars, appVars, dbVars, logVars>>

\* one turn of the loop: rows.Next, rows.Scan, total += price * months
ScanRow(p) ==
    /\ inv[p].pc = "scan" /\ inv[p].i < Len(inv[p].rows)
    /\ inv' = SetTotal([inv EXCEPT ![p].i = @ + 1], p,
                       inv[p].total
                           + SumAdded(inv[p].rows[inv[p].i + 1], inv[p].sumFilter))
    /\ UNCHANGED <<table, aggVars, svcVars, httpVars, appVars, dbVars, logVars>>

\* rows.Next is false: Storage.Sum returns total, and Service.Sum returns it
Return(p) ==
    /\ inv[p].pc = "scan" /\ inv[p].i = Len(inv[p].rows)
    /\ inv' = [inv EXCEPT ![p].pc = "done",
                          ![p].out = [total |-> inv[p].total, err |-> Nil]]
    /\ UNCHANGED <<table, aggVars, svcVars, httpVars, appVars, dbVars, logVars>>

NextConc ==
    \E p \in DOMAIN inv : Validate(p) \/ Query(p) \/ ScanRow(p) \/ Return(p)

SpecConc == InitConc /\ [][NextConc]_vars

----------------------------------------------------------------------------
(* SumQuery: the rows of the table the query of Storage.Sum selects *)

\* start_date < $4 in place of start_date <= $4
C26MutSumQueryHolds(row, f) ==
    /\ row.user_id = f.UserID
    /\ row.service_name = f.ServiceName
    /\ Before(row.start_date, f.To)
    /\ (row.end_date = Nil \/ ~Before(Deref(row.end_date), f.From))

\* the WHERE clause of SumQuery with $1..$4 = filter.UserID,
\* filter.ServiceName, filter.From, filter.To
SumQueryHolds(row, f) ==
    /\ row.user_id = f.UserID
    /\ row.service_name = f.ServiceName
    /\ ~After(row.start_date, f.To)
    /\ (row.end_date = Nil \/ ~Before(Deref(row.end_date), f.From))

SumQuery(tbl, f) ==
    LET Holds(row) == SumQueryHolds(row, f) IN SelectSeq(tbl, Holds)

\* the rows of one user and service, with or without a day of the month,
\* the end date absent or not before the start date
TableRows ==
    {r \in [user_id : {"u"}, service_name : {"Netflix"}, price : {100},
            start_date : AnyDates, end_date : {Nil} \cup {Ptr(t) : t \in AnyDates}] :
        r.end_date = Nil \/ ~Before(Deref(r.end_date), r.start_date)}

InitTable ==
    /\ table \in SeqsUpTo(TableRows, MaxRows)
    /\ filter \in Filters
    /\ fault = NoFault
    /\ rows = <<>>
    /\ sumOut = NotCalled
    /\ turns = <<>> /\ listOut = Nil
    /\ inv = <<>>
    /\ SvcIdle /\ HttpIdle /\ AppIdle /\ DbIdle /\ LogIdle

\* st.Sum(ctx, filter) on a storage whose database holds table
SumOverTable ==
    /\ ~sumOut.called
    /\ rows' = SumQuery(table, filter)
    /\ sumOut' = StorageSum(SumQuery(table, filter), filter, fault)
    /\ turns' = SumTurns(SumQuery(table, filter), filter, fault)
    /\ UNCHANGED <<fault, filter, listOut, svcVars, httpVars, appVars, concVars,
                   dbVars, logVars>>

NextTable == SumOverTable

SpecTable == InitTable /\ [][NextTable]_vars

----------------------------------------------------------------------------
(* The Storage over its table.  store.rows are the rows of subscriptions in *)
(* insertion order, store.nextID the next value of the id sequence.  db is  *)
(* what the driver does to one statement: "ok", "exec" (the statement       *)
(* fails before it runs) or "affected" (it runs, RowsAffected fails).       *)

\* the row INSERT and UPDATE write for sub
RowOf(id, sub) ==
    [id |-> id, service_name |-> sub.ServiceName, price |-> sub.Price,
     user_id |-> sub.UserID, start_date |-> sub.StartDate, end_date |-> sub.EndDate]

\* the models.Subscription Scan fills from a row
SubOf(row) ==
    [ID |-> row.id, ServiceName |-> row.service_name, Price |-> row.price,
     UserID |-> row.user_id, StartDate |-> row.start_date, EndDate |-> row.end_date]

\* the positions of the rows WHERE id = $n selects
WithID(st, id) == {i \in 1..Len(st.rows) : st.rows[i].id = id}

\* Storage.Create(ctx, sub): InsertSubQuery ... RETURNING id
StorageCreate(st, sub, db) ==
    IF db # "ok"
    THEN [err |-> Wrap("failed to create new row", DriverErr), id |-> 0, store |-> st]
    ELSE [err |-> Nil, id |-> st.nextID,
          store |-> [rows |-> Append(st.rows, RowOf(st.nextID, sub)),
                     nextID |-> st.nextID + 1]]

\* Storage.Get(ctx, id): SelectSubQuery
StorageGet(st, id, db) ==
    LET HasID(row) == row.id = id
        found == SelectSeq(st.rows, HasID)
    IN  IF db # "ok"
        THEN [err |-> Wrap("failed to get subscription", DriverErr), sub |-> NoSub]
        ELSE IF found = <<>>
        THEN [err |-> Wrap("failed to get subscription", SqlErrNoRows), sub |-> NoSub]
        ELSE [err |-> Nil, sub |-> Ptr(SubOf(found[1]))]

\* UPDATE ... SET ... end_date = COALESCE($5, end_date): a nil end date
\* leaves the stored one
C30MutUpdateQuery(st, sub) ==
    [st EXCEPT !.rows =
        [i \in 1..Len(st.rows) |->
            IF st.rows[i].id = sub.ID
            THEN [RowOf(sub.ID, sub) EXCEPT !.end_date =
                     IF sub.EndDate = Nil THEN st.rows[i].end_date ELSE sub.EndDate]
            ELSE st.rows[i]]]

\* UpdateQuery with $1..$6 = the fields of sub: every column but id is set
UpdateQuery(st, sub) ==
    [st EXCEPT !.rows =
        [i \in 1..Len(st.rows) |->
            IF st.rows[i].id = sub.ID THEN RowOf(sub.ID, sub) ELSE st.rows[i]]]

\* DeleteQuery with $1 = id
DeleteQuery(st, id) ==
    LET Other(row) == row.id # id IN [st EXCEPT !.rows = SelectSeq(st.rows, Other)]

\* Storage.Update(ctx, sub); affected is what RowsAffected counts
StorageUpdate(st, sub, db) ==
    LET affected == Cardinality(WithID(st, sub.ID))
    IN  IF db = "exec"
        THEN [err |-> Wrap("failed to update table", DriverErr), store |-> st,
              affected |-> 0]
        ELSE IF db = "affected"
        THEN [err |-> Wrap("failed to check affected rows", DriverErr),
              store |-> UpdateQuery(st, sub), affected |-> affected]
        ELSE IF affected = 0
        THEN [err |-> SqlErrNoRows, store |-> UpdateQuery(st, sub), affected |-> affected]
        ELSE [err |-> Nil, store |-> UpdateQuery(st, sub), affected |-> affected]

\* the check of rows == 0 left out
C24MutStorageDelete(st, id, db) ==
    LET affected == Cardinality(WithID(st, id))
    IN  IF db = "exec"
        THEN [err |-> Wrap("failed to delete subscription", DriverErr), store |-> st,
              affected |-> 0]
        ELSE IF db = "affected"
        THEN [err |-> Wrap("failed check affected rows", DriverErr),
              store |-> DeleteQuery(st, id), affected |-> affected]
        ELSE [err |-> Nil, store |-> DeleteQuery(st, id), affected |-> affected]

\* Storage.Delete(ctx, id)
StorageDelete(st, id, db) ==
    LET affected == Cardinality(WithID(st, id))
    IN  IF db = "exec"
        THEN [err |-> Wrap("failed to delete subscription", DriverErr), store |-> st,
              affected |-> 0]
        ELSE IF db = "affected"
        THEN [err |-> Wrap("failed check affected rows", DriverErr),
              store |-> DeleteQuery(st, id), affected |-> affected]
        ELSE IF affected = 0
        THEN [err |-> SqlErrNoRows, store |-> DeleteQuery(st, id), affected |-> affected]
        ELSE [err |-> Nil, store |-> DeleteQuery(st, id), affected |-> affected]

\* ListQuery with $1 = userID
ListQuery(st, userID) ==
    LET OfUser(row) == row.user_id = userID IN SelectSeq(st.rows, OfUser)

----------------------------------------------------------------------------
(* The service on the Storage: a method of a Service whose repository is   *)
(* the Storage over st.  Each gives the method's result, the store after   *)
(* it, and what the Storage did (nil when the Storage was not called).     *)

NotAsked == Failed(Nil)
Untouched(res, st) == [res |-> res, store |-> st, did |-> Nil]

CreateOn(st, data, db) ==
    LET asked == ServiceCreate(data, NotAsked).repo
        did   == StorageCreate(st, asked[1].arg, db)
        out   == Answer(did.err, did.id, NoSub, <<>>, 0)
    IN  IF asked = <<>> THEN Untouched(ServiceCreate(data, NotAsked), st)
        ELSE [res |-> ServiceCreate(data, out), store |-> did.store, did |-> Ptr(did)]

GetOn(st, id, db) ==
    LET asked == ServiceGet(id, NotAsked).repo
        did   == StorageGet(st, asked[1].arg, db)
        out   == Answer(did.err, 0, did.sub, <<>>, 0)
    IN  IF asked = <<>> THEN Untouched(ServiceGet(id, NotAsked), st)
        ELSE [res |-> ServiceGet(id, out), store |-> st, did |-> Ptr(did)]

UpdateOn(st, id, data, db) ==
    LET asked == ServiceUpdate(id, data, NotAsked).repo
        did   == StorageUpdate(st, asked[1].arg, db)
        out   == Answer(did.err, 0, NoSub, <<>>, 0)
    IN  IF asked = <<>> THEN Untouched(ServiceUpdate(id, data, NotAsked), st)
        ELSE [res |-> ServiceUpdate(id, data, out), store |-> did.store, did |-> Ptr(did)]

DeleteOn(st, id, db) ==
    LET asked == ServiceDelete(id, NotAsked).repo
        did   == StorageDelete(st, asked[1].arg, db)
        out   == Answer(did.err, 0, NoSub, <<>>, 0)
    IN  IF asked = <<>> THEN Untouched(ServiceDelete(id, NotAsked), st)
        ELSE [res |-> ServiceDelete(id, out), store |-> did.store, did |-> Ptr(did)]

ListOn(st, userID, flt) ==
    LET asked == ServiceList(userID, NotAsked).repo
        did   == StorageList(ListQuery(st, asked[1].arg), flt)
        out   == Answer(did.err, 0, NoSub,
                        IF did.subs = Nil THEN <<>> ELSE Deref(did.subs), 0)
    IN  IF asked = <<>> THEN Untouched(ServiceList(userID, NotAsked), st)
        ELSE [res |-> ServiceList(userID, out), store |-> st, did |-> Ptr(did)]

SumOn(st, f, flt) ==
    LET asked == ServiceSum(f, NotAsked).repo
        did   == StorageSum(SumQuery(st.rows, asked[1].arg), asked[1].arg, flt)
        out   == Answer(did.err, 0, NoSub, <<>>, did.total)
    IN  IF asked = <<>> THEN Untouched(ServiceSum(f, NotAsked), st)
        ELSE [res |-> ServiceSum(f, out), store |-> st, did |-> Ptr(did)]

----------------------------------------------------------------------------
(* Sequences of Create, Update and Delete on an empty table *)

EmptyStore == [rows |-> <<>>, nextID |-> 1]

\* requests that pass every check, and one request failing each check
GoodData ==
    [ServiceName : {" Netflix "}, Price : {100}, UserID : {ValidUUID},
     StartDate : {"01-2024"}, EndDate : {Nil, Ptr(""), Ptr("02-2024")}]
BaseData ==
    [ServiceName |-> " Netflix ", Price |-> 100, UserID |-> ValidUUID,
     StartDate |-> "02-2024", EndDate |-> Ptr("02-2024")]
BadData ==
    {[BaseData EXCEPT !.ServiceName = "   "], [BaseData EXCEPT !.Price = 0],
     [BaseData EXCEPT !.UserID = "not-uuid"], [BaseData EXCEPT !.StartDate = "2024-02-01"],
     [BaseData EXCEPT !.EndDate = Ptr("01-2024")], [BaseData EXCEPT !.EndDate = Ptr("2-2024")]}
StoreData == GoodData \cup {BaseData} \cup BadData
StoreIDs == 0..MaxID
DbOutcomes == {"ok", "exec", "affected"}

InitStore == AggIdle /\ SvcIdle /\ HttpIdle /\ AppIdle /\ ConcIdle /\ DbIdle /\ LogIdle

\* svc.Create(ctx, data); the id sequence is followed up to MaxID
StoreCreate ==
    /\ store.nextID <= MaxID
    /\ \E data \in StoreData, db \in {"ok", "exec"} :
        \E on \in {CreateOn(store, data, db)} :
            /\ store' = on.store
            /\ ret' = RetOf(on.res)
            /\ repo' = on.res.repo
            /\ UNCHANGED <<call, aggVars, httpVars, appVars, concVars, logVars>>

\* svc.Update(ctx, id, data)
StoreUpdate ==
    \E id \in StoreIDs, data \in StoreData, db \in DbOutcomes :
        \E on \in {UpdateOn(store, id, data, db)} :
            /\ store' = on.store
            /\ ret' = RetOf(on.res)
            /\ repo' = on.res.repo
            /\ UNCHANGED <<call, aggVars, httpVars, appVars, concVars, logVars>>

\* svc.Delete(ctx, id)
StoreDelete ==
    \E id \in StoreIDs, db \in DbOutcomes :
        \E on \in {DeleteOn(store, id, db)} :
            /\ store' = on.store
            /\ ret' = RetOf(on.res)
            /\ repo' = on.res.repo
            /\ UNCHANGED <<call, aggVars, httpVars, appVars, concVars, logVars>>

NextStore == StoreCreate \/ StoreUpdate \/ StoreDelete

SpecStore == InitStore /\ [][NextStore]_vars

----------------------------------------------------------------------------
(* One call of a service method on a table the service has filled *)

SeedOne ==
    CreateOn(EmptyStore, [BaseData EXCEPT !.StartDate = "01-2024"], "ok").store
SeedTwo ==
    CreateOn(SeedOne, [BaseData EXCEPT !.Price = 1, !.EndDate = Nil], "ok").store
SeedDeleted == DeleteOn(SeedTwo, 1, "ok").store
StepStores == {EmptyStore, SeedOne, SeedTwo, SeedDeleted}

InitStep ==
    /\ store \in StepStores
    /\ AggIdle /\ SvcIdle /\ HttpIdle /\ AppIdle /\ ConcIdle /\ LogIdle

\* A call as the state records it: its arguments, what the driver does to its
\* statement, the store it ran on and what the Storage did (nil when the
\* Storage was not called).
StepCall(op, id, data, db, on, did) ==
    [op |-> op, id |-> id, data |-> data, db |-> db, on |-> on, out |-> did]

StepCreate ==
    /\ call = Nil
    /\ \E data \in CreateSubscriptions, db \in {"ok", "exec"} :
        \E on \in {CreateOn(store, data, db)} :
            /\ call' = StepCall("Create", 0, data, db, store, on.did)
            /\ store' = on.store
            /\ ret' = RetOf(on.res)
            /\ repo' = on.res.repo
            /\ UNCHANGED <<aggVars, httpVars, appVars, concVars, logVars>>

StepGet ==
    /\ call = Nil
    /\ \E id \in IDs, db \in {"ok", "exec"} :
        \E on \in {GetOn(store, id, db)} :
            /\ call' = StepCall("Get", id, Nil, db, store, on.did)
            /\ store' = on.store
            /\ ret' = RetOf(on.res)
            /\ repo' = on.res.repo
            /\ UNCHANGED <<aggVars, httpVars, appVars, concVars, logVars>>

StepUpdate ==
    /\ call = Nil
    /\ \E id \in IDs, data \in CreateSubscriptions, db \in DbOutcomes :
        \E on \in {UpdateOn(store, id, data, db)} :
            /\ call' = StepCall("Update", id, data, db, store, on.did)
            /\ store' = on.store
            /\ ret' = RetOf(on.res)
            /\ repo' = on.res.repo
            /\ UNCHANGED <<aggVars, httpVars, appVars, concVars, logVars>>

StepDelete ==
    /\ call = Nil
    /\ \E id \in IDs, db \in DbOutcomes :
        \E on \in {DeleteOn(store, id, db)} :
            /\ call' = StepCall("Delete", id, Nil, db, store, on.did)
            /\ store' = on.store
            /\ ret' = RetOf(on.res)
            /\ repo' = on.res.repo
            /\ UNCHANGED <<aggVars, httpVars, appVars, concVars, logVars>>

StepList ==
    /\ call = Nil
    /\ \E userID \in UserIDs, flt \in ReadFaults(Len(store.rows)) :
        \E on \in {ListOn(store, userID, flt)} :
            /\ call' = StepCall("List", 0, [UserID |-> userID], flt, store, on.did)
            /\ store' = on.store
            /\ ret' = RetOf(on.res)
            /\ repo' = on.res.repo
            /\ UNCHANGED <<aggVars, httpVars, appVars, concVars, logVars>>

StepSum ==
    /\ call = Nil
    /\ \E f \in FiltersForSum, flt \in ReadFaults(Len(store.rows)) :
        \E on \in {SumOn(store, f, flt)} :
            /\ call' = StepCall("Sum", 0, f, flt, store, on.did)
            /\ store' = on.store
            /\ ret' = RetOf(on.res)
            /\ repo' = on.res.repo
            /\ UNCHANGED <<aggVars, httpVars, appVars, concVars, logVars>>

NextStep == StepCreate \/ StepGet \/ StepUpdate \/ StepDelete \/ StepList \/ StepSum

SpecStep == InitStep /\ [][NextStep]_vars

----------------------------------------------------------------------------
(* LoggingMiddleware.  The wrapped handler is a script: the calls it makes  *)
(* on the http.ResponseWriter it is given, in order.  A Write carries the   *)
(* bytes and how many of them the connection takes (fewer than all when the *)
(* write fails).                                                            *)

\* the longest script of a handler
MaxOps == 3

HandlerOps ==
    {[op |-> "WriteHeader", code |-> 201], [op |-> "WriteHeader", code |-> 404],
     [op |-> "Write", data |-> "test-data", n |-> 9], [op |-> "Write", data |-> "ok", n |-> 2],
     [op |-> "Write", data |-> "test-data", n |-> 4]}

\* the http.ResponseWriter the middleware is given, before any call on it
NewRecorder == [wroteHeader |-> FALSE, status |-> 0, body |-> ""]

\* w.WriteHeader(code) on it: only the first call sets the status
RecorderWriteHeader(w, code) ==
    IF w.wroteHeader THEN w ELSE [w EXCEPT !.wroteHeader = TRUE, !.status = code]

\* w.Write(data) on it, taking n bytes: the header goes out first, as 200
\* when none was written
RecorderWrite(w, data, n) ==
    LET h == RecorderWriteHeader(w, StatusOK)
    IN  [h EXCEPT !.body = h.body \o SubSeq(data, 1, n)]

\* l.responseData.size = size in place of l.responseData.size += size
C25MutLoggingWrite(lw, data, n) ==
    [under |-> RecorderWrite(lw.under, data, n),
     respData |-> [lw.respData EXCEPT !.size = n],
     size |-> n]

\* loggingResponseWritter.Write: lw is the wrapper, [under, respData]
LoggingWrite(lw, data, n) ==
    [under |-> RecorderWrite(lw.under, data, n),
     respData |-> [lw.respData EXCEPT !.size = lw.respData.size + n],
     size |-> n]

\* loggingResponseWritter.WriteHeader
LoggingWriteHeader(lw, statusCode) ==
    [under |-> RecorderWriteHeader(lw.under, statusCode),
     respData |-> [lw.respData EXCEPT !.status = statusCode]]

InitLog ==
    /\ mw \in [script : SeqsUpTo(HandlerOps, MaxOps), pc : {"start"}, i : {1},
               called : {FALSE}, under : {NewRecorder}, respData : {Nil},
               logged : {Nil}]
    /\ AggIdle /\ SvcIdle /\ HttpIdle /\ AppIdle /\ ConcIdle /\ DbIdle

\* the middleware's handler up to next.ServeHTTP(&lw, r)
Serve ==
    /\ mw.pc = "start"
    /\ mw' = [mw EXCEPT !.respData = Ptr([status |-> StatusOK, size |-> 0]),
                        !.called = TRUE, !.pc = "next"]
    /\ UNCHANGED <<aggVars, svcVars, httpVars, appVars, concVars, dbVars>>

\* the wrapped handler calls w.WriteHeader(code)
HandlerWriteHeader ==
    /\ mw.pc = "next" /\ mw.i <= Len(mw.script)
    /\ mw.script[mw.i].op = "WriteHeader"
    /\ LET lw == LoggingWriteHeader([under |-> mw.under, respData |-> Deref(mw.respData)],
                                    mw.script[mw.i].code)
       IN  mw' = [mw EXCEPT !.under = lw.under, !.respData = Ptr(lw.respData),
                            !.i = mw.i + 1]
    /\ UNCHANGED <<aggVars, svcVars, httpVars, appVars, concVars, dbVars>>

\* the wrapped handler calls w.Write(data)
HandlerWrite ==
    /\ mw.pc = "next" /\ mw.i <= Len(mw.script)
    /\ mw.script[mw.i].op = "Write"
    /\ LET lw == LoggingWrite([under |-> mw.under, respData |-> Deref(mw.respData)],
                              mw.script[mw.i].data, mw.script[mw.i].n)
       IN  mw' = [mw EXCEPT !.under = lw.under, !.respData = Ptr(lw.respData),
                            !.i = mw.i + 1]
    /\ UNCHANGED <<aggVars, svcVars, httpVars, appVars, concVars, dbVars>>

\* next.ServeHTTP returns and the middleware logs status and size
LogRequest ==
    /\ mw.pc = "next" /\ mw.i > Len(mw.script)
    /\ mw' = [mw EXCEPT !.logged = Ptr([status |-> Deref(mw.respData).status,
                                        size |-> Deref(mw.respData).size]),
                        !.pc = "done"]
    /\ UNCHANGED <<aggVars, svcVars, httpVars, appVars, concVars, dbVars>>

NextLog == Serve \/ HandlerWriteHeader \/ HandlerWrite \/ LogRequest

SpecLog == InitLog /\ [][NextLog]_vars

----------------------------------------------------------------------------
(* The aggregation as the specification states it (spec.md 4.2) *)

\* the position of a month in the total order by (year, month)
MonthIndex(t) == t.y * 12 + t.m

FirstOfMonth(t) == t.d = 1

\* a row as the specification's SubscriptionInterval: price > 0, first-of-month
\* dates, end open or not before start
WellFormedRow(r) ==
    /\ r.price > 0
    /\ FirstOfMonth(r.start_date)
    /\ r.end_date # Nil =>
           /\ FirstOfMonth(Deref(r.end_date))
           /\ MonthIndex(Deref(r.end_date)) >= MonthIndex(r.start_date)

WellFormedQuery(f) ==
    /\ FirstOfMonth(f.From) /\ FirstOfMonth(f.To)
    /\ MonthIndex(f.From) <= MonthIndex(f.To)

EffectiveStart(r, f) ==
    IF MonthIndex(r.start_date) > MonthIndex(f.From) THEN r.start_date ELSE f.From

EffectiveEnd(r, f) ==
    IF r.end_date = Nil THEN f.To
    ELSE IF MonthIndex(Deref(r.end_date)) < MonthIndex(f.To)
         THEN Deref(r.end_date) ELSE f.To

MonthsSpan(a, b) == (b.y - a.y) * 12 + (b.m - a.m) + 1

Contribution(r, f) ==
    IF MonthIndex(EffectiveStart(r, f)) > MonthIndex(EffectiveEnd(r, f)) THEN 0
    ELSE r.price * MonthsSpan(EffectiveStart(r, f), EffectiveEnd(r, f))

RECURSIVE TotalCost(_, _, _)
TotalCost(f, subs, n) ==
    IF n = 0 THEN 0 ELSE TotalCost(f, subs, n - 1) + Contribution(subs[n], f)

\* the months a row's interval and the query interval have in common
CommonMonths(r, f) ==
    {k \in MonthIndex(f.From)..MonthIndex(f.To) :
        /\ k >= MonthIndex(r.start_date)
        /\ r.end_date # Nil => k <= MonthIndex(Deref(r.end_date))}

Returned == sumOut.called /\ fault = NoFault

TestFilter ==
    [UserID |-> "u", ServiceName |-> "Netflix",
     From |-> Date(2024, 1, 1), To |-> Date(2024, 3, 1)]

----------------------------------------------------------------------------
(* C1..C6: Storage.Sum *)

\* C1: for a query with from <= to and well-formed rows, Storage.Sum returns
\* the sum over the rows of price * monthsSpan(effectiveStart, effectiveEnd),
\* a row with effectiveStart > effectiveEnd counting 0.
C1_SumIsSumOfContributions ==
    (/\ Returned
     /\ WellFormedQuery(filter)
     /\ \A i \in 1..Len(rows) : WellFormedRow(rows[i]))
        => /\ sumOut.err = Nil
           /\ sumOut.total = TotalCost(filter, rows, Len(rows))

\* the scenario of TestStorage_Sum_OK: 100 from 01-2024 open-ended and 50 for
\* 02-2024 alone, over 01-2024..03-2024, total 350
C1_Witness ==
    /\ Returned
    /\ filter = TestFilter
    /\ rows = << [price |-> 100, start_date |-> Date(2024, 1, 1), end_date |-> Nil],
                 [price |-> 50, start_date |-> Date(2024, 2, 1),
                  end_date |-> Ptr(Date(2024, 2, 1))] >>
    /\ sumOut.total = 350

\* the rows rs in the order p, a permutation of their positions
Reordered(rs, p) == [i \in 1..Len(rs) |-> rs[p[i]]]

\* C2: the total is the same for every reordering of the delivered rows.
C2_OrderIndependent ==
    Returned =>
        \A p \in Permutations(1..Len(rows)) :
            StorageSum(Reordered(rows, p), filter, fault).total = sumOut.total

\* two rows that add different non-zero amounts
C2_Witness ==
    /\ Returned
    /\ Len(rows) = 2
    /\ sumOut.added[1] > 0 /\ sumOut.added[2] > 0
    /\ sumOut.added[1] # sumOut.added[2]

NoOverlap(r, f) ==
    \/ MonthIndex(r.start_date) > MonthIndex(f.To)
    \/ r.end_date # Nil /\ MonthIndex(Deref(r.end_date)) < MonthIndex(f.From)

\* C3: a row whose interval has no month in common with the query interval
\* adds exactly 0, whatever its price.
C3_NoOverlapAddsZero ==
    sumOut.called =>
        \A i \in DOMAIN sumOut.added :
            NoOverlap(rows[i], filter) => sumOut.added[i] = 0

\* a row ending before the query and a row starting after it, both scanned,
\* next to nothing else: the total is 0
C3_Witness ==
    /\ Returned
    /\ Len(rows) = 2
    /\ rows[1].end_date # Nil
    /\ MonthIndex(Deref(rows[1].end_date)) < MonthIndex(filter.From)
    /\ MonthIndex(rows[2].start_date) > MonthIndex(filter.To)
    /\ rows[1].price = 100
    /\ sumOut.total = 0

SingleMonthInside(r, f) ==
    /\ r.end_date = Ptr(r.start_date)
    /\ MonthIndex(f.From) <= MonthIndex(r.start_date)
    /\ MonthIndex(r.start_date) <= MonthIndex(f.To)

\* C4: a single-month row (start = end) whose month lies in the query interval,
\* its first and last month included, adds exactly price * 1.
C4_SingleMonthAddsPrice ==
    sumOut.called =>
        \A i \in DOMAIN sumOut.added :
            SingleMonthInside(rows[i], filter) => sumOut.added[i] = rows[i].price

\* a single-month row on the last month of a longer query, and one on the first
C4_Witness ==
    /\ Returned
    /\ Len(rows) = 2
    /\ SingleMonthInside(rows[1], filter) /\ SingleMonthInside(rows[2], filter)
    /\ rows[1].start_date = filter.To
    /\ rows[2].start_date = filter.From
    /\ filter.From # filter.To
    /\ sumOut.total = rows[1].price + rows[2].price

OpenEnded(r, f) ==
    r.end_date = Nil /\ MonthIndex(r.start_date) <= MonthIndex(f.To)

\* C5: an open-ended row with start <= query.to adds price times the number of
\* months from max(start, query.from) to query.to, both included; price 100
\* from 01-2024 over 01-2024..03-2024 adds 300.
C5_OpenEndedClampsToQueryEnd ==
    sumOut.called =>
        \A i \in DOMAIN sumOut.added :
            OpenEnded(rows[i], filter) =>
                /\ sumOut.added[i] = rows[i].price * Cardinality(CommonMonths(rows[i], filter))
                /\ Cardinality(CommonMonths(rows[i], filter)) =
                       MonthIndex(filter.To)
                           - MonthIndex(EffectiveStart(rows[i], filter)) + 1
                /\ (/\ rows[i].price = 100
                    /\ rows[i].start_date = Date(2024, 1, 1)
                    /\ filter = TestFilter) => sumOut.added[i] = 300

C5_Witness ==
    /\ Returned
    /\ filter = TestFilter
    /\ rows = << [price |-> 100, start_date |-> Date(2024, 1, 1), end_date |-> Nil] >>
    /\ sumOut.total = 300

\* C6: for a query with from <= to and well-formed rows the aggregation returns
\* no error and a total >= 0, which is 0 when there are no rows.
C6_NoErrorNonNegative ==
    (/\ Returned
     /\ WellFormedQuery(filter)
     /\ \A i \in 1..Len(rows) : WellFormedRow(rows[i]))
        => /\ sumOut.err = Nil
           /\ sumOut.total >= 0
           /\ rows = <<>> => sumOut.total = 0

\* two well-formed rows, one of them outside the query, adding up to more than 0
C6_Witness ==
    /\ Returned
    /\ Len(rows) = 2
    /\ WellFormedQuery(filter)
    /\ WellFormedRow(rows[1]) /\ WellFormedRow(rows[2])
    /\ NoOverlap(rows[1], filter)
    /\ sumOut.err = Nil /\ sumOut.total > 0

\* the empty list
C6_WitnessEmpty == Returned /\ rows = <<>> /\ sumOut.total = 0 /\ sumOut.err = Nil

----------------------------------------------------------------------------
(* C7..C10: validation in Service.Create, Service.Update and Service.Sum *)

\* The checks of spec.md 4.1, field by field, on a CreateSubscription d.
NameFails(d)  == TrimSpace(d.ServiceName) = ""
PriceFails(d) == d.Price <= 0
UserFails(d)  == ~UUIDParse(d.UserID)
StartFails(d) == ~TimeParse(d.StartDate).ok
EndPresent(d) == d.EndDate # Nil /\ Deref(d.EndDate) # ""
EndBeforeStart(d) ==
    /\ TimeParse(Deref(d.EndDate)).ok /\ TimeParse(d.StartDate).ok
    /\ MonthIndex(TimeParse(Deref(d.EndDate)).t) < MonthIndex(TimeParse(d.StartDate).t)
EndFails(d) ==
    EndPresent(d) /\ (~TimeParse(Deref(d.EndDate)).ok \/ EndBeforeStart(d))

\* the error kind of the first failing field in the order service name, price,
\* user id, start date, end date; nil when no field fails
FirstFailing(d) ==
    IF NameFails(d) THEN ErrInvalidServiceName
    ELSE IF PriceFails(d) THEN ErrInvalidPrice
    ELSE IF UserFails(d) THEN ErrInvalidUserID
    ELSE IF StartFails(d) THEN ErrInvalidStartDate
    ELSE IF EndFails(d) THEN ErrInvalidEndDate
    ELSE Nil

IsCall(ops) == call # Nil /\ call.op \in ops

\* C7 as stated: in Create and in Update the error returned is the kind of the
\* first failing field in the order service name, price, user id, start date,
\* end date.
C7_FirstFailingField ==
    (IsCall({"Create", "Update"}) /\ FirstFailing(call.data) # Nil)
        => ret.err = FirstFailing(call.data)

\* C7 as the code has it: so in Create, and in Update called with id > 0;
\* Update called with id <= 0 returns ErrInvalidID before any field is looked at.
C7_FirstFailingFieldAfterID ==
    /\ (IsCall({"Create"}) /\ FirstFailing(call.data) # Nil)
           => ret.err = FirstFailing(call.data)
    /\ (IsCall({"Update"}) /\ call.id > 0 /\ FirstFailing(call.data) # Nil)
           => ret.err = FirstFailing(call.data)
    /\ (IsCall({"Update"}) /\ call.id <= 0) => ret.err = ErrInvalidID

\* an Update with id > 0 whose price, user id, start date and end date all
\* fail: the price is what is reported
C7_Witness ==
    /\ IsCall({"Update"}) /\ call.id > 0
    /\ ~NameFails(call.data) /\ PriceFails(call.data) /\ UserFails(call.data)
    /\ StartFails(call.data) /\ EndFails(call.data)
    /\ ret.err = ErrInvalidPrice

\* C8: Service.Sum checks service name, user id, from, to and then to >= from,
\* and returns ErrInvalidServiceName, ErrInvalidUserID, ErrInvalidStartDate or
\* ErrInvalidEndDate for the first check that fails.
SumFirstFailing(f) ==
    IF TrimSpace(f.ServiceName) = "" THEN ErrInvalidServiceName
    ELSE IF ~UUIDParse(f.UserID) THEN ErrInvalidUserID
    ELSE IF ~TimeParse(f.From).ok THEN ErrInvalidStartDate
    ELSE IF ~TimeParse(f.To).ok THEN ErrInvalidEndDate
    ELSE IF MonthIndex(TimeParse(f.To).t) < MonthIndex(TimeParse(f.From).t)
         THEN ErrInvalidEndDate
    ELSE Nil

C8_SumValidationOrder ==
    IsCall({"Sum"}) =>
        IF SumFirstFailing(call.data) # Nil
        THEN ret.err = SumFirstFailing(call.data)
        ELSE ret.err = call.out.err

\* a filter whose user id, from and to all fail: the user id is what is reported
C8_Witness ==
    /\ IsCall({"Sum"})
    /\ TrimSpace(call.data.ServiceName) # ""
    /\ ~UUIDParse(call.data.UserID)
    /\ ~TimeParse(call.data.From).ok /\ ~TimeParse(call.data.To).ok
    /\ ret.err = ErrInvalidUserID

\* every check before the end date passes (for Update the id is one of them)
EarlierValid ==
    /\ IsCall({"Create", "Update"})
    /\ call.op = "Update" => call.id > 0
    /\ ~NameFails(call.data) /\ ~PriceFails(call.data)
    /\ ~UserFails(call.data) /\ ~StartFails(call.data)

\* C9: with everything before it valid, a present non-empty end month is
\* rejected with ErrInvalidEndDate exactly when it does not parse or is
\* strictly before the start month; equal to the start month it is accepted.
C9_EndDateRejectedIff ==
    (EarlierValid /\ EndPresent(call.data)) =>
        /\ (ret.err = ErrInvalidEndDate) <=>
               (~TimeParse(Deref(call.data.EndDate)).ok \/ EndBeforeStart(call.data))
        /\ call.data.EndDate = Ptr(call.data.StartDate) =>
               /\ Len(repo) = 1
               /\ repo[1].arg.EndDate = Ptr(repo[1].arg.StartDate)
               /\ ret.err = IF ErrorsIs(call.out.err, SqlErrNoRows)
                            THEN ErrSubscriptionNotFound ELSE call.out.err

\* a Create for the single month 01-2024, stored
C9_Witness ==
    /\ EarlierValid /\ call.op = "Create"
    /\ call.data.StartDate = "01-2024" /\ call.data.EndDate = Ptr("01-2024")
    /\ ret.err = Nil
    /\ Deref(ret.sub).EndDate = Ptr(Date(2024, 1, 1))

\* C10: a nil or empty end date never gives ErrInvalidEndDate, and with a valid
\* start month (and everything before it) the repository is sent EndDate nil.
C10_AbsentEndIsOpen ==
    (IsCall({"Create", "Update"}) /\ ~EndPresent(call.data)) =>
        /\ ret.err # ErrInvalidEndDate
        /\ EarlierValid =>
               /\ Len(repo) = 1
               /\ repo[1].arg.EndDate = Nil
               /\ call.out.err = Nil => ret.err = Nil

\* an Update with end_date "" that reaches the repository with EndDate nil
C10_Witness ==
    /\ EarlierValid /\ call.op = "Update"
    /\ call.data.EndDate = Ptr("")
    /\ repo = <<RepoCall("Update", [ID |-> call.id, ServiceName |-> "Netflix",
                 Price |-> 100, UserID |-> ValidUUID,
                 StartDate |-> Date(2024, 2, 1), EndDate |-> Nil])>>
    /\ ret.err = Nil

\* a Create with no end_date at all, stored open-ended
C10_WitnessNil ==
    /\ EarlierValid /\ call.op = "Create"
    /\ call.data.EndDate = Nil
    /\ ret.err = Nil /\ Deref(ret.sub).EndDate = Nil /\ Deref(ret.sub).ID = 10

----------------------------------------------------------------------------
(* C11..C16: Service validation and the repository's errors *)

\* the checks of Service.Sum before the comparison of to with from all pass
SumDatesParsed ==
    /\ IsCall({"Sum"})
    /\ TrimSpace(call.data.ServiceName) # "" /\ UUIDParse(call.data.UserID)
    /\ TimeParse(call.data.From).ok /\ TimeParse(call.data.To).ok

\* C11: Service.Sum with a valid service name and user id and parseable from
\* and to returns ErrInvalidEndDate exactly when to is strictly before from;
\* with to equal to from the query is sent to the repository and the
\* repository's answer is what Sum returns.
C11_SumRejectsIffToBeforeFrom ==
    SumDatesParsed =>
        /\ (ret.err = ErrInvalidEndDate) <=>
               (MonthIndex(TimeParse(call.data.To).t)
                    < MonthIndex(TimeParse(call.data.From).t))
        /\ call.data.To = call.data.From =>
               /\ repo = <<RepoCall("Sum",
                             [UserID |-> call.data.UserID,
                              ServiceName |-> TrimSpace(call.data.ServiceName),
                              From |-> TimeParse(call.data.From).t,
                              To |-> TimeParse(call.data.From).t])>>
               /\ ret.err = call.out.err
               /\ ret.total = call.out.total

\* the single month 01-2024 asked for: the repository is called and its total
\* returned
C11_Witness ==
    /\ SumDatesParsed
    /\ call.data.From = "01-2024" /\ call.data.To = "01-2024"
    /\ Len(repo) = 1 /\ repo[1].arg.From = Date(2024, 1, 1)
    /\ repo[1].arg.To = Date(2024, 1, 1)
    /\ ret.err = Nil /\ ret.total = 1500

\* to one month before from: rejected, the repository not called
C11_WitnessRejected ==
    /\ SumDatesParsed
    /\ call.data.From = "01-2024" /\ call.data.To = "12-2023"
    /\ ret.err = ErrInvalidEndDate /\ repo = <<>>

\* the months a string denotes when it has the form MM-YYYY, MM in 01..12
MonthOf(s) == {ym \in ParseYears \X ParseMonths : FormatMonth(ym[1], ym[2]) = s}
IsMonthString(s) == MonthOf(s) # {}
ParsedMonth(s) ==
    LET ym == CHOOSE x \in MonthOf(s) : TRUE IN Date(ym[1], ym[2], 1)

\* C12: in every date field a string MM-YYYY with MM in 01..12 becomes the
\* first day of the month with that year and that month, and every other
\* string is rejected with the field's error: ErrInvalidStartDate for
\* start_date and from, ErrInvalidEndDate for end_date and to.  (The other
\* fields are valid; an end_date that is nil or empty is not parsed.)
C12_MonthParsingStrict ==
    /\ IsCall({"Create", "Update"}) =>
           IF ~IsMonthString(call.data.StartDate)
           THEN ret.err = ErrInvalidStartDate /\ repo = <<>>
           ELSE IF EndPresent(call.data) /\ ~IsMonthString(Deref(call.data.EndDate))
           THEN ret.err = ErrInvalidEndDate /\ repo = <<>>
           ELSE /\ ret.err = Nil /\ Len(repo) = 1
                /\ repo[1].arg.StartDate = ParsedMonth(call.data.StartDate)
                /\ EndPresent(call.data) =>
                       repo[1].arg.EndDate = Ptr(ParsedMonth(Deref(call.data.EndDate)))
    /\ IsCall({"Sum"}) =>
           IF ~IsMonthString(call.data.From)
           THEN ret.err = ErrInvalidStartDate /\ repo = <<>>
           ELSE IF ~IsMonthString(call.data.To)
           THEN ret.err = ErrInvalidEndDate /\ repo = <<>>
           ELSE /\ ret.err = Nil /\ Len(repo) = 1
                /\ repo[1].arg.From = ParsedMonth(call.data.From)
                /\ repo[1].arg.To = ParsedMonth(call.data.To)

\* the end date 12-1999 of a Create, sent to the repository as 1999-12-01
C12_Witness ==
    /\ IsCall({"Create"})
    /\ call.data.EndDate = Ptr("12-1999")
    /\ Len(repo) = 1
    /\ repo[1].arg.EndDate = Ptr(Date(1999, 12, 1))
    /\ ret.err = Nil

\* the one-digit month 1-2024 as the from of a Sum, rejected
C12_WitnessRejected ==
    /\ IsCall({"Sum"})
    /\ call.data.From = "1-2024"
    /\ ret.err = ErrInvalidStartDate /\ repo = <<>>

\* C13 as stated: in Create and in Update, with a valid service name, a price
\* <= 0 gives ErrInvalidPrice and a price >= 1 does not.
C13_PriceCheck ==
    (IsCall({"Create", "Update"}) /\ ~NameFails(call.data)) =>
        /\ call.data.Price <= 0 => ret.err = ErrInvalidPrice
        /\ call.data.Price >= 1 => ret.err # ErrInvalidPrice

\* C13 as the code has it: so in Create, and in Update called with id > 0;
\* Update called with id <= 0 returns ErrInvalidID whatever the price.
C13_PriceCheckAfterID ==
    /\ (/\ IsCall({"Create", "Update"}) /\ ~NameFails(call.data)
        /\ call.op = "Update" => call.id > 0) =>
           /\ call.data.Price <= 0 => ret.err = ErrInvalidPrice /\ repo = <<>>
           /\ call.data.Price >= 1 => ret.err # ErrInvalidPrice
    /\ (IsCall({"Update"}) /\ call.id <= 0) => ret.err = ErrInvalidID

\* an Update with id > 0 and price 0, everything else valid: rejected
C13_Witness ==
    /\ IsCall({"Update"}) /\ call.id > 0
    /\ FirstFailing([call.data EXCEPT !.Price = 1]) = Nil
    /\ call.data.Price = 0
    /\ ret.err = ErrInvalidPrice

\* a Create with price 1, everything else valid: stored
C13_WitnessAccepted ==
    /\ IsCall({"Create"})
    /\ call.data.Price = 1 /\ FirstFailing(call.data) = Nil
    /\ Len(repo) = 1 /\ repo[1].arg.Price = 1
    /\ call.out.err = Nil /\ ret.err = Nil

\* s has no white space at either end
Trimmed(s) ==
    /\ Len(s) > 0 => Char(s, 1) \notin WhiteSpace /\ Char(s, Len(s)) \notin WhiteSpace
    /\ \E i \in 0..Len(call.data.ServiceName) :
       \E j \in i..Len(call.data.ServiceName) :
           s = SubSeq(call.data.ServiceName, i + 1, j)

\* C14 as stated: in Create, Update and Sum a service name that is empty after
\* trimming gives ErrInvalidServiceName, and a name the repository is sent is
\* the trimmed name.
C14_NameTrimmed ==
    IsCall({"Create", "Update", "Sum"}) =>
        /\ NameFails(call.data) => ret.err = ErrInvalidServiceName
        /\ Len(repo) = 1 =>
               /\ repo[1].arg.ServiceName = TrimSpace(call.data.ServiceName)
               /\ Trimmed(repo[1].arg.ServiceName)

\* C14 as the code has it: so in Create and Sum, and in Update called with
\* id > 0; Update called with id <= 0 returns ErrInvalidID whatever the name.
C14_NameTrimmedAfterID ==
    /\ (/\ IsCall({"Create", "Update", "Sum"})
        /\ call.op = "Update" => call.id > 0) =>
           /\ NameFails(call.data) => ret.err = ErrInvalidServiceName /\ repo = <<>>
           /\ Len(repo) = 1 =>
                  /\ repo[1].arg.ServiceName = TrimSpace(call.data.ServiceName)
                  /\ Trimmed(repo[1].arg.ServiceName)
    /\ (IsCall({"Update"}) /\ call.id <= 0) => ret.err = ErrInvalidID /\ repo = <<>>

\* a Sum for "  Netflix  ": the repository is asked for "Netflix"
C14_Witness ==
    /\ IsCall({"Sum"})
    /\ call.data.ServiceName = "  Netflix  "
    /\ Len(repo) = 1 /\ repo[1].arg.ServiceName = "Netflix"

\* a Create whose name is only spaces: rejected
C14_WitnessEmpty ==
    /\ IsCall({"Create"})
    /\ call.data.ServiceName = "   "
    /\ ret.err = ErrInvalidServiceName /\ repo = <<>>

\* C15: Get, Update and Delete called with id <= 0 return ErrInvalidID and
\* make no call on the repository; so Update whatever its other fields hold.
C15_InvalidIDFirst ==
    (IsCall({"Get", "Update", "Delete"}) /\ call.id <= 0) =>
        /\ ret.err = ErrInvalidID
        /\ repo = <<>>

\* an Update with id 0 whose every field fails too
C15_Witness ==
    /\ IsCall({"Update"}) /\ call.id = 0
    /\ NameFails(call.data) /\ PriceFails(call.data) /\ UserFails(call.data)
    /\ StartFails(call.data) /\ EndFails(call.data)
    /\ ret.err = ErrInvalidID /\ repo = <<>>

\* the repository's error is sql.ErrNoRows or wraps it: the innermost error of
\* the chain is sql.ErrNoRows
ReportsNoRows(err) == err # Nil /\ <<err[Len(err)]>> = SqlErrNoRows

\* C16: when the repository is called by Get, Update or Delete and returns an
\* error, the method returns ErrSubscriptionNotFound if the error is
\* sql.ErrNoRows or wraps it, and the repository's error itself otherwise.
C16_NoRowsIsNotFound ==
    (IsCall({"Get", "Update", "Delete"}) /\ Len(repo) = 1 /\ call.out.err # Nil) =>
        ret.err = IF ReportsNoRows(call.out.err)
                  THEN ErrSubscriptionNotFound ELSE call.out.err

\* Storage.Get's wrapped sql.ErrNoRows, reported by Get as not found
C16_Witness ==
    /\ IsCall({"Get"}) /\ call.id > 0
    /\ call.out.err = Wrap("failed to get subscription", SqlErrNoRows)
    /\ repo = <<RepoCall("Get", call.id)>>
    /\ ret.err = ErrSubscriptionNotFound

\* a driver error of Delete, returned as it is
C16_WitnessOther ==
    /\ IsCall({"Delete"}) /\ call.id > 0
    /\ call.out.err = Wrap("failed to delete subscription", DriverErr)
    /\ ret.err = Wrap("failed to delete subscription", DriverErr)

----------------------------------------------------------------------------
(* C17, C18: the HTTP handlers *)

ValidationErrors ==
    {ErrInvalidID, ErrInvalidServiceName, ErrInvalidPrice, ErrInvalidUserID,
     ErrInvalidStartDate, ErrInvalidEndDate}

Handled == req # Nil /\ resp # Nil
ServiceCalled == call # Nil

\* the response reports an error: the service was not called, or returned one
ErrorResponse == Handled /\ (~ServiceCalled \/ ret.err # Nil)

\* C17: a handler whose service call returns an error answers 400 for each of
\* the validation errors, 404 for ErrSubscriptionNotFound and 500 for any
\* other error; a response that reports an error never has a 2xx status, and
\* a call that returns no error is answered 2xx.
C17_ErrorKindToStatus ==
    /\ (Handled /\ ServiceCalled /\ ret.err # Nil) =>
           resp.status = IF ret.err \in ValidationErrors THEN 400
                         ELSE IF ret.err = ErrSubscriptionNotFound THEN 404
                         ELSE 500
    /\ ErrorResponse =>
           /\ resp.status \notin 200..299
           /\ resp.ctype # "application/json"
    /\ (Handled /\ ~ErrorResponse) => resp.status \in 200..299

\* PUT /subscriptions/1 of a valid body when no row has that id: 404
C17_Witness ==
    /\ Handled /\ req.handler = "UpdateSubscriptionHandler"
    /\ ServiceCalled /\ call.out.err = SqlErrNoRows
    /\ ret.err = ErrSubscriptionNotFound
    /\ resp.status = 404

\* a driver error under GET /subscriptions/sum: 500
C17_WitnessInternal ==
    /\ Handled /\ req.handler = "SumSubscriptionHandler"
    /\ ServiceCalled /\ ret.err = Wrap("query failed", DriverErr)
    /\ resp.status = 500

\* a price of 0 under POST /subscriptions: 400
C17_WitnessValidation ==
    /\ Handled /\ req.handler = "CreateSubscriptionHandler"
    /\ ServiceCalled /\ ret.err = ErrInvalidPrice
    /\ resp.status = 400

\* the path id is absent or is not an optionally signed decimal number
NotAnInteger(s) ==
    \/ s = ""
    \/ \A k \in 1..Len(s) : ~IsDigit(Char(s, k))
    \/ \E k \in 1..Len(s) : ~IsDigit(Char(s, k)) /\ ~(k = 1 /\ Char(s, 1) \in {"+", "-"})

\* the request is malformed for its handler
Malformed ==
    \/ /\ req.handler \in {"GetSubscriptionHandler", "UpdateSubscriptionHandler",
                           "DeleteSubscriptionsHandler"}
       /\ NotAnInteger(req.id)
    \/ /\ req.handler \in {"CreateSubscriptionHandler", "UpdateSubscriptionHandler"}
       /\ req.body.kind # "object"
    \/ /\ req.handler = "ListSubscriptionHandler"
       /\ req.query.user_id = ""
    \/ /\ req.handler = "SumSubscriptionHandler"
       /\ \/ req.query.user_id = "" \/ req.query.service_name = ""
          \/ req.query.from = "" \/ req.query.to = ""

\* C18: a request with a missing or non-integer path id (Get, Update, Delete),
\* an undecodable body (Create, Update), no user_id (List) or any of user_id,
\* service_name, from, to missing (Sum) is answered 400 and neither the
\* service nor the repository is called.
C18_MalformedRejectedBeforeService ==
    (Handled /\ Malformed) =>
        /\ resp.status = 400
        /\ ~ServiceCalled
        /\ repo = <<>>

\* GET /subscriptions/abc
C18_Witness ==
    /\ Handled /\ req.handler = "GetSubscriptionHandler" /\ req.id = "abc"
    /\ resp = HttpError("id must be integer", 400)
    /\ ~ServiceCalled

\* GET /subscriptions/sum with only "to" missing
C18_WitnessSum ==
    /\ Handled /\ req.handler = "SumSubscriptionHandler"
    /\ req.query.user_id = ValidUUID /\ req.query.service_name = "Netflix"
    /\ req.query.from = "01-2024" /\ req.query.to = ""
    /\ resp.status = 400 /\ ~ServiceCalled

\* PUT /subscriptions/1 with a body that is not JSON
C18_WitnessBody ==
    /\ Handled /\ req.handler = "UpdateSubscriptionHandler" /\ req.id = "1"
    /\ req.body.kind = "malformed"
    /\ resp = HttpError("Invalid JSON format", 400) /\ ~ServiceCalled

----------------------------------------------------------------------------
(* C19: App.Run *)

\* ListenAndServe ended for a reason of its own, not because of the shutdown
ListenerFailed == run.lasErr \in {ErrListen, ErrAccept}

C19_WitnessInFlight ==
    /\ ctxDone /\ shut = "shutdown" /\ srv.active > 0
    /\ run.pc = "returned" /\ run.ret = Nil

----------------------------------------------------------------------------
(* C20: concurrent invocations *)

\* what Service.Sum returns for flt when it runs alone over the rows tbl
Alone(flt, tbl) ==
    LET parsed == [UserID |-> flt.UserID, ServiceName |-> TrimSpace(flt.ServiceName),
                   From |-> TimeParse(flt.From).t, To |-> TimeParse(flt.To).t]
        stored == StorageSum(tbl, parsed, NoFault)
        res    == ServiceSum(flt, Answer(stored.err, 0, NoSub, <<>>, stored.total))
    IN  [total |-> res.total, err |-> res.err]

\* C20: however the steps of the invocations interleave, each invocation
\* returns what it returns alone on the same filter and table, the table is
\* never changed, and a step changes the locals of one invocation only.
C20_InvocationsIndependent ==
    /\ [](\A p \in DOMAIN inv :
            inv[p].pc = "done" => inv[p].out = Alone(inv[p].flt, table))
    /\ [][/\ table' = table
          /\ DOMAIN inv' = DOMAIN inv
          /\ \A p, q \in DOMAIN inv :
                 (inv'[p] # inv[p] /\ inv'[q] # inv[q]) => p = q]_vars

\* two invocations with different filters over the same two rows, both
\* returned, the second while the first was in the middle of its scan
C20_Witness ==
    /\ Len(inv) >= 2 /\ Len(table) = 2
    /\ inv[1].pc = "done" /\ inv[2].pc = "done"
    /\ inv[1].flt # inv[2].flt
    /\ inv[1].out.err = Nil /\ inv[2].out.err = Nil
    /\ inv[1].out.total # inv[2].out.total

\* an invocation in the middle of its scan while another is too
C20_WitnessInterleaved ==
    /\ Len(inv) >= 2
    /\ inv[1].pc = "scan" /\ inv[1].i = 1
    /\ inv[2].pc = "scan" /\ inv[2].i = 1
    /\ inv[1].total # inv[2].total

----------------------------------------------------------------------------
\* C21: in the loop of Storage.Sum, every row that passes the no-overlap
\* guard (the clamped from is not after the clamped to) has a computed
\* inclusive span of at least one month, so no turn ends at the continue of
\* the non-positive-span check, whatever the row and the query.
C21_SpanPositiveAfterGuard ==
    sumOut.called =>
        \A i \in 1..Len(turns) :
            /\ turns[i].at # "negative"
            /\ turns[i].at # "no-overlap" =>
                   /\ ~After(turns[i].from, turns[i].to)
                   /\ Deref(turns[i].months) >= 1

\* a row with a day of the month passes the guard, and another row is
\* stopped by it
C21_Witness ==
    /\ sumOut.called /\ Len(turns) = 2
    /\ turns[1].at = "add" /\ turns[1].from.d = 15 /\ Deref(turns[1].months) = 1
    /\ turns[2].at = "no-overlap"

----------------------------------------------------------------------------
SameMonth(t, u) == t.y = u.y /\ t.m = u.m

\* two rows that differ at most in the day of their dates
SameMonths(r, q) ==
    /\ r.price = q.price
    /\ SameMonth(r.start_date, q.start_date)
    /\ (r.end_date = Nil) = (q.end_date = Nil)
    /\ r.end_date # Nil => SameMonth(Deref(r.end_date), Deref(q.end_date))

----------------------------------------------------------------------------
\* the read of a row failed: its Scan, or rows.Next() before it
RowReadFailed == fault.kind = "scan" \/ fault.kind = "iter"

\* C23: when reading any row fails, Storage.Sum returns total 0 with an
\* error, never the sum of the rows read so far, and Storage.List returns
\* the nil list with an error, never the list of the rows read so far.
C23_NoPartialResult ==
    RowReadFailed =>
        /\ sumOut.called => sumOut.total = 0 /\ sumOut.err # Nil
        /\ listOut # Nil => listOut.subs = Nil /\ listOut.err # Nil

\* the second row fails after the first was read: a sum and a list existed
C23_Witness ==
    /\ fault = [kind |-> "scan", at |-> 2]
    /\ sumOut.called /\ sumOut.added = <<200>> /\ sumOut.total = 0
    /\ listOut # Nil /\ Len(listOut.scanned) = 1 /\ listOut.subs = Nil

\* rows.Next() gives up before the second row
C23_WitnessIter ==
    /\ fault = [kind |-> "iter", at |-> 2]
    /\ sumOut.called /\ sumOut.added = <<400>> /\ sumOut.total = 0
    /\ listOut # Nil /\ Len(listOut.scanned) = 1 /\ listOut.subs = Nil

----------------------------------------------------------------------------
\* C26: the WHERE clause of SumQuery leaves out only rows that add nothing:
\* for every table of one user and service and every query with from <= to,
\* the total of Storage.Sum over the selected rows equals the total of the
\* same loop over all rows of the table, and every selected row adds at
\* least price * 1.
C26_PrefilterExcludesOnlyZero ==
    sumOut.called =>
        /\ sumOut.total = SumLoop(table, filter, Len(table))
        /\ \A i \in 1..Len(table) :
               ~SumQueryHolds(table[i], filter) => SumAdded(table[i], filter) = 0
        /\ \A i \in 1..Len(rows) : sumOut.added[i] >= rows[i].price * 1

\* one row is left out by the query and one is selected
C26_Witness ==
    /\ sumOut.called /\ Len(table) = 2 /\ Len(rows) = 1
    /\ ~SumQueryHolds(table[1], filter)
    /\ table[1].start_date.d = 15
    /\ sumOut.total = 200

----------------------------------------------------------------------------
\* the month after t
NextMonth(t) == IF t.m = 12 THEN Date(t.y + 1, 1, 1) ELSE Date(t.y, t.m + 1, 1)

Total(rs, from, to) ==
    StorageSum(rs, [UserID |-> filter.UserID, ServiceName |-> filter.ServiceName,
                    From |-> from, To |-> to], NoFault).total

\* C27: the total is additive over adjacent query intervals: for
\* well-formed rows and months a <= b < c, the total over [a, c] is the
\* total over [a, b] plus the total over [b+1, c]; hence a wider query
\* interval never has a smaller total.
C27_AdditiveOverAdjacent ==
    (Returned /\ \A i \in 1..Len(rows) : WellFormedRow(rows[i])) =>
        /\ \A b \in Months :
               (~Before(b, filter.From) /\ Before(b, filter.To)) =>
                   sumOut.total = Total(rows, filter.From, b)
                                      + Total(rows, NextMonth(b), filter.To)
        /\ \A f \in Filters :
               (~Before(f.From, filter.From) /\ ~After(f.To, filter.To)) =>
                   Total(rows, f.From, f.To) <= sumOut.total

\* a row spanning the cut between the two intervals
C27_Witness ==
    /\ Returned /\ Len(rows) = 2
    /\ filter.From = MonthAt(0) /\ filter.To = MonthAt(3)
    /\ rows[1] = [price |-> 100, start_date |-> MonthAt(1), end_date |-> Ptr(MonthAt(2))]
    /\ rows[2] = [price |-> 50, start_date |-> MonthAt(0), end_date |-> Nil]
    /\ sumOut.total = 400

----------------------------------------------------------------------------
\* the Storage ran the statement of the call made
StorageDid == call # Nil /\ call.out # Nil

\* C24: Storage.Update and Storage.Delete return sql.ErrNoRows exactly when
\* the statement ran without error and affected zero rows, and nil when it
\* affected at least one row.
C24_NoRowsIffNoneAffected ==
    (IsCall({"Update", "Delete"}) /\ StorageDid) =>
        LET did == Deref(call.out)
            none == WithID(call.on, call.id) = {}
        IN  /\ did.err = SqlErrNoRows <=> (call.db = "ok" /\ none)
            /\ (call.db = "ok" /\ ~none) => did.err = Nil
            /\ call.db = "ok" => did.affected = Cardinality(WithID(call.on, call.id))

\* an Update of an id that is not stored, on a table that holds another row
C24_Witness ==
    /\ IsCall({"Update"}) /\ StorageDid /\ call.id = 1 /\ call.on = SeedDeleted
    /\ Deref(call.out).err = SqlErrNoRows
    /\ ret.err = ErrSubscriptionNotFound

\* a Delete that removes a row
C24_WitnessDeleted ==
    /\ IsCall({"Delete"}) /\ StorageDid /\ call.id = 2 /\ call.on = SeedTwo
    /\ Deref(call.out).err = Nil /\ Len(store.rows) = 1

----------------------------------------------------------------------------
\* a stored row as the service writes it
StoredRowValid(row) ==
    /\ row.service_name # ""
    /\ Char(row.service_name, 1) \notin WhiteSpace
    /\ Char(row.service_name, Len(row.service_name)) \notin WhiteSpace
    /\ row.price > 0
    /\ UUIDParse(row.user_id)
    /\ FirstOfMonth(row.start_date)
    /\ row.end_date # Nil =>
           /\ FirstOfMonth(Deref(row.end_date))
           /\ ~Before(Deref(row.end_date), row.start_date)

\* C28: after any sequence of Create, Update and Delete calls through the
\* service on an initially empty store, every stored subscription has a
\* non-empty trimmed service name, a price > 0, a user id that parses as a
\* UUID, a first-of-month start date, and an end date that is absent or
\* first-of-month and not before the start date.
C28_StoredRowsValid ==
    \A i \in 1..Len(store.rows) : StoredRowValid(store.rows[i])

\* two rows, the first one written by an Update after the second was created
C28_Witness ==
    /\ Len(store.rows) = 2
    /\ store.rows[1].id = 1 /\ store.rows[2].id = 2
    /\ repo # <<>> /\ repo[1].method = "Update" /\ repo[1].arg.ID = 1 /\ ret.err = Nil
    /\ store.rows[1].end_date = Ptr(Date(2024, 2, 1))
    /\ store.rows[2].end_date = Nil

----------------------------------------------------------------------------
\* C29: whenever Create, Update, Delete, Get, List or Sum returns a
\* validation error, the repository has not been called during that
\* operation, so the stored rows are unchanged.
C29_ValidationErrorLeavesStore ==
    (call # Nil /\ ret.err \in ValidationErrors) =>
        /\ repo = <<>>
        /\ call.out = Nil
        /\ store = call.on

\* an Update of a stored row refused for its end date
C29_Witness ==
    /\ IsCall({"Update"}) /\ call.id = 1 /\ call.on = SeedTwo
    /\ ret.err = ErrInvalidEndDate
    /\ store = SeedTwo

----------------------------------------------------------------------------
\* the end date a request asks for: absent when nil or empty
AskedEnd(data) ==
    IF data.EndDate = Nil \/ Deref(data.EndDate) = "" THEN Nil
    ELSE Ptr(ParsedMonth(Deref(data.EndDate)))

\* C30: a successful Update(id, data) replaces every field of the row with
\* that id by the normalized values of data, setting the end date to absent
\* when data carries none or an empty one, and leaves the id of that row and
\* all rows with other ids unchanged.
C30_UpdateReplacesRow ==
    (IsCall({"Update"}) /\ ret.err = Nil) =>
        /\ store.nextID = call.on.nextID
        /\ Len(store.rows) = Len(call.on.rows)
        /\ \E i \in 1..Len(store.rows) : call.on.rows[i].id = call.id
        /\ \A i \in 1..Len(store.rows) :
               IF call.on.rows[i].id = call.id
               THEN /\ store.rows[i].id = call.id
                    /\ Trimmed(store.rows[i].service_name)
                    /\ store.rows[i].price = call.data.Price
                    /\ store.rows[i].user_id = call.data.UserID
                    /\ store.rows[i].start_date = ParsedMonth(call.data.StartDate)
                    /\ store.rows[i].end_date = AskedEnd(call.data)
               ELSE store.rows[i] = call.on.rows[i]

\* the stored end date of row 1 is cleared, row 2 stays
C30_Witness ==
    /\ IsCall({"Update"}) /\ ret.err = Nil /\ call.id = 1 /\ call.on = SeedTwo
    /\ call.on.rows[1].end_date # Nil
    /\ call.data.EndDate = Nil
    /\ store.rows[1].end_date = Nil
    /\ store.rows[1].start_date = Date(2024, 2, 1)
    /\ store.rows[2] = SeedTwo.rows[2]

----------------------------------------------------------------------------
RECURSIVE Direct(_, _)
\* the response the script gives when it runs on the ResponseWriter itself
Direct(script, k) ==
    IF k = 0 THEN NewRecorder
    ELSE IF script[k].op = "WriteHeader"
    THEN RecorderWriteHeader(Direct(script, k - 1), script[k].code)
    ELSE RecorderWrite(Direct(script, k - 1), script[k].data, script[k].n)

RECURSIVE BytesWritten(_, _)
\* the bytes the first k calls of the script wrote
BytesWritten(script, k) ==
    IF k = 0 THEN 0
    ELSE BytesWritten(script, k - 1) + (IF script[k].op = "Write" THEN script[k].n ELSE 0)

\* the positions of the script's WriteHeader calls
HeaderCalls(script) == {k \in 1..Len(script) : script[k].op = "WriteHeader"}
LastHeaderCall(script) ==
    CHOOSE k \in HeaderCalls(script) : \A j \in HeaderCalls(script) : j <= k

\* C25: the logging middleware always calls the wrapped handler and forwards
\* its status and body unchanged; the status it records is 200 when the
\* handler never calls WriteHeader and otherwise the status code passed to
\* WriteHeader (the last call, when there are several), and the size it
\* records is the sum of the bytes written by all Write calls.
C25_MiddlewareTransparent ==
    mw.logged # Nil =>
        /\ mw.called
        /\ mw.under = Direct(mw.script, Len(mw.script))
        /\ Deref(mw.logged).status =
               IF HeaderCalls(mw.script) = {} THEN 200
               ELSE mw.script[LastHeaderCall(mw.script)].code
        /\ Deref(mw.logged).size = BytesWritten(mw.script, Len(mw.script))

\* the handler of TestLoggingMiddleware_StatusAndSizeCaptured, and one more
\* Write
C25_Witness ==
    /\ mw.logged = Ptr([status |-> 201, size |-> 11])
    /\ mw.under = [wroteHeader |-> TRUE, status |-> 201, body |-> "test-dataok"]

\* the handler of TestLoggingMiddleware_DefaultStatusOK
C25_WitnessDefault ==
    /\ mw.script = <<>>
    /\ mw.logged = Ptr([status |-> 200, size |-> 0])
    /\ mw.under = NewRecorder

====
